---- MODULE Spec2Model ----
(***************************************************************************)
(* Model of wmc-file-downloader.py (KBNLwikimedia/wikimedia-various-tools): *)
(* the paged listing fetch_category_members, the category traversal        *)
(* harvest_files_with_depth with the plan summary, the global selection    *)
(* build_global_selection, the filename safety layer sanitize_filename,    *)
(* the list resolver plan_from_list, the download and log pipeline         *)
(* perform_downloads, and the entry point main.                            *)
(*                                                                         *)
(* Python strings are modelled as sequences of one-character strings, so   *)
(* that prefix tests, replace, lower/casefold, splitext and slicing are    *)
(* computed as the code computes them.                                     *)
(***************************************************************************)
EXTENDS Integers, Sequences, FiniteSets, TLC

(***************************************************************************)
(* Bounds of the model                                                     *)
(***************************************************************************)
\* longest file listing one category returns
MaxListing == 2
\* most subcategories one category lists
MaxSubcats == 2
\* largest DEPTH the traversal is run with
MaxDepth == 2

(***************************************************************************)
(* Python string primitives                                                *)
(***************************************************************************)
\* code points, in ascending order, of the characters the model uses
AsciiOrder ==
  << " ", "\"", "#", "%", "&", "*", "-", ".", "/",
     "0", "1", "2", "3", "4", "5", "6", "7", "8", "9", ":", "<", ">", "?",
     "A", "B", "C", "D", "E", "F", "G", "H", "I", "J", "K", "L", "M", "N",
     "O", "P", "Q", "R", "S", "T", "U", "V", "W", "X", "Y", "Z", "\\", "_",
     "a", "b", "c", "d", "e", "f", "g", "h", "i", "j", "k", "l", "m", "n",
     "o", "p", "q", "r", "s", "t", "u", "v", "w", "x", "y", "z", "{", "|", "}" >>

Ord(c) == CHOOSE i \in 1..Len(AsciiOrder) : AsciiOrder[i] = c

UpperCase == << "A", "B", "C", "D", "E", "F", "G", "H", "I", "J", "K", "L", "M",
                "N", "O", "P", "Q", "R", "S", "T", "U", "V", "W", "X", "Y", "Z" >>
LowerCase == << "a", "b", "c", "d", "e", "f", "g", "h", "i", "j", "k", "l", "m",
                "n", "o", "p", "q", "r", "s", "t", "u", "v", "w", "x", "y", "z" >>

\* str.lower() on one character
LowerChar(c) ==
  IF \E i \in 1..Len(UpperCase) : UpperCase[i] = c
  THEN LowerCase[CHOOSE i \in 1..Len(UpperCase) : UpperCase[i] = c]
  ELSE c

\* str.lower(); on the ASCII characters of the model str.casefold() is the same
Lower(s) == [i \in 1..Len(s) |-> LowerChar(s[i])]

\* str.startswith(p)
StartsWith(s, p) == Len(s) >= Len(p) /\ SubSeq(s, 1, Len(p)) = p

\* str.endswith(p)
EndsWith(s, p) == Len(s) >= Len(p) /\ SubSeq(s, Len(s) - Len(p) + 1, Len(s)) = p

\* str.replace(old, new): every non-overlapping occurrence, left to right
RECURSIVE Replace(_, _, _)
Replace(s, old, new) ==
  IF Len(s) < Len(old) \/ Len(old) = 0 THEN s
  ELSE IF SubSeq(s, 1, Len(old)) = old
       THEN new \o Replace(SubSeq(s, Len(old) + 1, Len(s)), old, new)
       ELSE <<Head(s)>> \o Replace(Tail(s), old, new)

\* s < t in Python's string order (lexicographic by code point)
RECURSIVE StrLess(_, _)
StrLess(s, t) ==
  IF t = <<>> THEN FALSE
  ELSE IF s = <<>> THEN TRUE
  ELSE IF Head(s) = Head(t) THEN StrLess(Tail(s), Tail(t))
  ELSE Ord(Head(s)) < Ord(Head(t))

\* str(n) for 0 <= n <= 99
Digits == << "0", "1", "2", "3", "4", "5", "6", "7", "8", "9" >>
DecStr(n) == IF n < 10 THEN << Digits[n + 1] >>
             ELSE << Digits[(n \div 10) + 1], Digits[(n % 10) + 1] >>

\* the literals "File:" and "Category:"
FilePrefix == << "F", "i", "l", "e", ":" >>
CategoryPrefix == << "C", "a", "t", "e", "g", "o", "r", "y", ":" >>

\* n copies of the character c
Rep(c, n) == [i \in 1..n |-> c]

\* str.rstrip(chars) and str.strip(chars), for a set of characters
RECURSIVE RStrip(_, _)
RStrip(s, chars) ==
  IF s # <<>> /\ s[Len(s)] \in chars THEN RStrip(SubSeq(s, 1, Len(s) - 1), chars) ELSE s

RECURSIVE LStrip(_, _)
LStrip(s, chars) ==
  IF s # <<>> /\ Head(s) \in chars THEN LStrip(Tail(s), chars) ELSE s

Strip(s, chars) == LStrip(RStrip(s, chars), chars)

\* s[:n] for n >= 0
Prefix(s, n) == SubSeq(s, 1, IF n < Len(s) THEN n ELSE Len(s))

\* all sequences over S of length at most n
SeqsUpTo(S, n) == UNION { [1..k -> S] : k \in 0..n }
\* those without a repeated element
InjSeqsUpTo(S, n) == { s \in SeqsUpTo(S, n) : \A i, j \in 1..Len(s) : s[i] = s[j] => i = j }

(***************************************************************************)
(* The remote catalogue, as far as the traversal sees it                   *)
(***************************************************************************)
TitleA == << "F", "i", "l", "e", ":", "A", ".", "j", "p", "g" >>
TitleB == << "F", "i", "l", "e", ":", "B", ".", "J", "P", "G" >>
TitleC == << "F", "i", "l", "e", ":", "C", ".", "p", "n", "g" >>
\* a member whose title lacks the "File:" marker
TitleBare == << "c", ".", "j", "p", "g" >>
\* a File-namespace page whose name holds "File:" a second time
TitleInner == << "F", "i", "l", "e", ":", "d", ".", "j", "p", "F", "i", "l", "e", ":", "g" >>

\* titles that differ in the case of their first letter
TitleZebra == << "F", "i", "l", "e", ":", "Z", "e", "b", "r", "a" >>
TitleApple == << "F", "i", "l", "e", ":", "a", "p", "p", "l", "e" >>
TitleMango == << "F", "i", "l", "e", ":", "M", "a", "n", "g", "o" >>

\* the titles of the catalogue, by ascending page id
FileTitles == << TitleA, TitleB, TitleC, TitleBare, TitleInner,
                 TitleZebra, TitleApple, TitleMango >>

\* item["pageid"] of the member with this title
PageIdBase == 10
PageId(title) == PageIdBase + (CHOOSE i \in 1..Len(FileTitles) : FileTitles[i] = title)

\* what fetch_category_members(session, cat, "file") may return: the item
\* titles, drawn from the part of the catalogue the run looks at
FileListings(titles) == SeqsUpTo(titles, MaxListing)

\* the file titles of the runs that study the file pool, and of those that
\* study the walk over the category graph
PoolTitles == { TitleB, TitleC, TitleBare, TitleInner }
WalkTitles == { TitleA }

\* the configured roots, CATEGORIES = ["A B", "S"]
CATEGORIES == << << "A", " ", "B" >>, << "S" >> >>

\* the titles a subcategory listing may return; the catalogue names the root
\* "Category:A B", and one category's own name starts with "Category:"
SubRoot == CategoryPrefix \o << "A", " ", "B" >>
SubS == CategoryPrefix \o << "S" >>
SubT == CategoryPrefix \o << "T" >>
SubDouble == CategoryPrefix \o CategoryPrefix \o << "S" >>

\* what fetch_category_members(session, cat, "subcat") may return
SubcatListings(subs) == InjSeqsUpTo(subs, MaxSubcats)

\* the subcategory titles of the two kinds of run
PoolSubcats == { SubS, SubT }
WalkSubcats == { SubRoot, SubS, SubT, SubDouble }

\* the extension filters the traversal is run with: FILE_EXTS = () or (".jpg",)
ExtJpg == << ".", "j", "p", "g" >>
FileExtsChoices == { <<>>, << ExtJpg >> }

(***************************************************************************)
(* State                                                                   *)
(***************************************************************************)
VARIABLES
  pc,               \* where the run stands
  FILE_EXTS,        \* configuration: the extension allow-list
  root_category,    \* harvest_files_with_depth: argument
  max_depth,        \* harvest_files_with_depth: argument
  q,                \* harvest_files_with_depth: deque of (cat, d, path)
  seen_categories,  \* harvest_files_with_depth: set of "Category:..." titles
  files_unique,     \* harvest_files_with_depth: dict title -> meta, in insertion order
  raw_membership,   \* harvest_files_with_depth: Counter path -> raw direct count
  visits,           \* history: the listing calls made so far, in order
  summary,          \* print_plan_summary_categories: the annotated trees and totals
  catalogue,        \* environment: the titles the remote listings draw from
  selectArgs,       \* build_global_selection: its arguments
  selectResult,     \* build_global_selection: its flattened pool and what it returns
  sanitizeArgs,     \* sanitize_filename: its arguments
  sanitizeResult,   \* sanitize_filename: the name it returns
  DRY_RUN,          \* configuration: plan only, touch nothing
  OVERWRITE_EXISTING, \* configuration: fetch again what is on disk
  log_flush_rows,   \* perform_downloads: argument, the flush size
  files,            \* perform_downloads: argument, the selected items in order
  idx,              \* perform_downloads: how many items the loop has taken
  rows_buffer,      \* perform_downloads: rows not yet handed to the log
  written,          \* perform_downloads: count of processed items
  disk,             \* environment: the file names present in the target folder
  folders,          \* environment: the folders the run has created
  sheet,            \* environment: the log sheet as stored, None while no log exists
  served,           \* history: what happened to each item of this call, in order
  flushes,          \* history: the batches this call handed to append_rows_to_excel_log
  runs,             \* history: one record per finished call of perform_downloads
  list_rows,        \* plan_from_list: the cells of the input column, in order
  list_idx,         \* plan_from_list: how many rows the loop has taken
  list_files,       \* plan_from_list: files, the dict title -> meta, in insertion order
  list_log,         \* history: what the loop did with each row taken
  fetch_pages,      \* environment: the pages the provider holds for one category
  fetch_params,     \* fetch_category_members: the continuation keys held in params
  fetch_out,        \* fetch_category_members: out, the members gathered so far
  fetch_cont,       \* fetch_category_members: cont, None before the first response
  fetch_log,        \* history: one record per request, in order
  MODE,             \* configuration: the mode main dispatches on
  main_cfg,         \* configuration: CATEGORIES_GLOBAL_RANGE_START/END and slice order
  normalized_roots, \* main: the roots, normalised, in configured order
  grand_plan,       \* main: one (root, files_unique) per harvested root
  heap,             \* main: the record and list objects, by identity
  selection,        \* main: what build_global_selection returned, None before
  root_idx,         \* main: how many roots the download loop has taken
  effects           \* history: the outside-visible steps of main, in order

harvestVars == << FILE_EXTS, root_category, max_depth, q, seen_categories,
                  files_unique, raw_membership, visits, summary, catalogue >>
selectVars == << selectArgs, selectResult >>
sanitizeVars == << sanitizeArgs, sanitizeResult >>
downloadVars == << DRY_RUN, OVERWRITE_EXISTING, log_flush_rows, files, idx, rows_buffer,
                   written, disk, folders, sheet, served, flushes, runs >>
listVars == << list_rows, list_idx, list_files, list_log >>
fetchVars == << fetch_pages, fetch_params, fetch_out, fetch_cont, fetch_log >>
mainVars == << MODE, main_cfg, normalized_roots, grand_plan, heap, selection, root_idx,
               effects >>

\* Python's None
None == <<>>
\* an optional value that is present
Some(x) == << x >>


(***************************************************************************)
(* harvest_files_with_depth                                                *)
(***************************************************************************)
\* main: normalized_roots = [c.replace(" ", "_") for c in CATEGORIES]
NormalizeRoot(c) == Replace(c, << " " >>, << "_" >>)
NormalizedRoots == [i \in 1..Len(CATEGORIES) |-> NormalizeRoot(CATEGORIES[i])]

\* Counter.get(key, 0)
CounterGet(counter, key) == IF key \in DOMAIN counter THEN counter[key] ELSE 0

\* counter[key] += n
CounterAdd(counter, key, n) ==
  [k \in (DOMAIN counter) \cup {key} |->
     CounterGet(counter, k) + (IF k = key THEN n ELSE 0)]

\* faulty variant of RawKey: every raw count is booked under the root
RawKeyOfRoot(path) == <<>>

\* tuple(path): the key of raw_membership for a node
RawKey(path) == path

\* faulty variant of HasTitle: the membership test never finds a title
HasTitleNever(fu, title) == FALSE

\* title in files_unique
HasTitle(fu, title) == \E i \in 1..Len(fu) : fu[i].title = title

\* filename.lower().endswith(FILE_EXTS) for a tuple of extensions
EndsWithAny(s, exts) == \E i \in 1..Len(exts) : EndsWith(s, exts[i])

\* faulty variant of PassesFilter: the "File:" marker is not asked for
PassesFilterWithoutMarker(title, exts) ==
  LET filename == Replace(title, FilePrefix, <<>>)
  IN  exts = <<>> \/ EndsWithAny(Lower(filename), exts)

\* the two guards of the loop body: the "File:" marker and the extension filter
PassesFilter(title, exts) ==
  /\ StartsWith(title, FilePrefix)
  /\ LET filename == Replace(title, FilePrefix, <<>>)
     IN  exts = <<>> \/ EndsWithAny(Lower(filename), exts)

\* mid = f"M{pageid}" if pageid and str(pageid).isdigit() else ""
MidOf(pageid) == IF pageid > 0 THEN << "M" >> \o DecStr(pageid) ELSE <<>>

\* the record stored for a title at its first hit
NewMeta(title, cat, path) ==
  [ title |-> title,
    pageid |-> PageId(title),
    mid |-> MidOf(PageId(title)),
    source_category |-> CategoryPrefix \o cat,
    path_segments |-> path ]

\* faulty variant of AssignOne: a later hit overwrites the stored record
AssignOneLastHit(fu, title, cat, path, exts) ==
  IF ~PassesFilter(title, exts) THEN fu
  ELSE IF HasTitle(fu, title)
       THEN [i \in 1..Len(fu) |->
               IF fu[i].title = title THEN NewMeta(title, cat, path) ELSE fu[i]]
       ELSE Append(fu, NewMeta(title, cat, path))

\* one pass of "for item in items", keeping the first hit only
AssignOne(fu, title, cat, path, exts) ==
  IF ~PassesFilter(title, exts) THEN fu
  ELSE IF HasTitle(fu, title) THEN fu
  ELSE Append(fu, NewMeta(title, cat, path))

RECURSIVE AssignUnique(_, _, _, _, _)
AssignUnique(fu, items, cat, path, exts) ==
  IF items = <<>> THEN fu
  ELSE AssignUnique(AssignOne(fu, Head(items), cat, path, exts),
                    Tail(items), cat, path, exts)

\* one pass of "for item in fetch_category_members(session, cat, 'subcat')"
EnqueueOne(st, sub_title, d, path) ==
  IF ~StartsWith(sub_title, CategoryPrefix) THEN st
  ELSE LET sub_name == Replace(sub_title, CategoryPrefix, <<>>)
           norm == CategoryPrefix \o sub_name
       IN  IF norm \in st.seen THEN st
           ELSE [ seen |-> st.seen \cup {norm},
                  q |-> Append(st.q, [cat |-> sub_name, d |-> d + 1,
                                      path |-> Append(path, sub_name)]) ]

RECURSIVE EnqueueSubcats(_, _, _, _)
EnqueueSubcats(st, subs, d, path) ==
  IF subs = <<>> THEN st
  ELSE EnqueueSubcats(EnqueueOne(st, Head(subs), d, path), Tail(subs), d, path)

\* "if d < max_depth": whether the subcategory listing is requested at all
ExpandsAt(d, depth) == d < depth

\* the state after construction: the root is queued at depth 0 and marked seen
HarvestStart(titles, subs) ==
  /\ pc = "harvest"
  /\ catalogue = [titles |-> titles, subs |-> subs]
  /\ FILE_EXTS \in FileExtsChoices
  /\ root_category = NormalizedRoots[1]
  /\ max_depth \in 0..MaxDepth
  /\ q = << [cat |-> root_category, d |-> 0, path |-> <<>>] >>
  /\ seen_categories = { CategoryPrefix \o root_category }
  /\ files_unique = <<>>
  /\ raw_membership = <<>>
  /\ visits = <<>>
  /\ summary = None

\* one iteration of "while q": pop a node, list and assign its files, and, if
\* the depth allows, list and enqueue its subcategories
HarvestStep ==
  /\ pc = "harvest"
  /\ q # <<>>
  /\ LET node == Head(q)
         expand == ExpandsAt(node.d, max_depth)
     IN  \E items \in FileListings(catalogue.titles) :
         \E subs \in (IF expand THEN SubcatListings(catalogue.subs) ELSE { <<>> }) :
           LET st == EnqueueSubcats([seen |-> seen_categories, q |-> Tail(q)],
                                    subs, node.d, node.path)
           IN  /\ raw_membership' = CounterAdd(raw_membership, RawKey(node.path), Len(items))
               /\ files_unique' = AssignUnique(files_unique, items, node.cat,
                                               node.path, FILE_EXTS)
               /\ q' = st.q
               /\ seen_categories' = st.seen
               /\ visits' = Append(visits, [ cat |-> node.cat, d |-> node.d,
                                             path |-> node.path, items |-> items,
                                             expanded |-> expand, subs |-> subs ])
  /\ UNCHANGED << pc, FILE_EXTS, root_category, max_depth, catalogue, summary >>
  /\ UNCHANGED << selectVars, sanitizeVars, downloadVars, listVars, fetchVars, mainVars >>

\* the loop ends on an empty queue: return files_unique, raw_membership
HarvestReturn ==
  /\ pc = "harvest"
  /\ q = <<>>
  /\ pc' = "harvested"
  /\ UNCHANGED << harvestVars, selectVars, sanitizeVars, downloadVars, listVars, fetchVars, mainVars >>

(***************************************************************************)
(* print_plan_summary_categories                                           *)
(***************************************************************************)
\* the nested dicts of the summary are kept as one function from the path of
\* a node to its fields; the children of a node are the paths one longer

\* build_tree_from_counter: the root and every prefix of every key
TreeNodes(counter) ==
  { <<>> } \cup UNION { { SubSeq(k, 1, n) : n \in 1..Len(k) } : k \in DOMAIN counter }

BuildTreeFromCounter(counter) ==
  [p \in TreeNodes(counter) |-> CounterGet(counter, p)]

\* unique_bucket = Counter(tuple(m.get("path_segments", [])) for m in files_unique.values())
UniqueBucket(fu) ==
  [p \in { fu[i].path_segments : i \in 1..Len(fu) } |->
     Cardinality({ i \in 1..Len(fu) : fu[i].path_segments = p })]

\* add_unique_directs: the unique direct count of every node of the tree
AddUniqueDirects(direct, unique_counter, fu) ==
  [p \in DOMAIN direct |->
     [direct |-> direct[p], unique_direct |-> CounterGet(unique_counter, p)]]

\* node["children"] of the node at path p
ChildPaths(tree, p) ==
  { c \in DOMAIN tree : Len(c) = Len(p) + 1 /\ SubSeq(c, 1, Len(p)) = p }

PairSum(a, b) == [raw |-> a.raw + b.raw, unique |-> a.unique + b.unique]

\* faulty variant of AnnotateTotals: the children are not added in
AnnotateTotalsDirectOnly(tree, p) ==
  [raw |-> tree[p].direct, unique |-> tree[p].unique_direct]

\* annotate_totals: (raw_total, unique_total) of the subtree at p
RECURSIVE AnnotateTotals(_, _), SumTotals(_, _), AddTotals(_, _, _)
SumTotals(tree, todo) ==
  IF todo = {} THEN [raw |-> 0, unique |-> 0]
  ELSE AddTotals(tree, CHOOSE c \in todo : TRUE, todo)

AddTotals(tree, c, todo) ==
  PairSum(AnnotateTotals(tree, c), SumTotals(tree, todo \ { c }))

AnnotateTotals(tree, p) ==
  PairSum([raw |-> tree[p].direct, unique |-> tree[p].unique_direct],
          SumTotals(tree, ChildPaths(tree, p)))

\* the tree of one root, every node annotated with its four counts
AnnotatedTree(tree) ==
  [p \in DOMAIN tree |->
     [direct |-> tree[p].direct, unique_direct |-> tree[p].unique_direct,
      raw_total |-> AnnotateTotals(tree, p).raw,
      unique_total |-> AnnotateTotals(tree, p).unique]]

\* the body of "for root, files_unique, raw_counter in grand_plan"
RootSummary(entry) ==
  AnnotatedTree(AddUniqueDirects(BuildTreeFromCounter(entry.raw_counter),
                                 UniqueBucket(entry.files_unique), entry.files_unique))

\* grand_total_raw and grand_total_unique: the root totals added up
RECURSIVE GrandTotals(_)
GrandTotals(trees) ==
  IF trees = <<>> THEN [raw |-> 0, unique |-> 0]
  ELSE PairSum([raw |-> Head(trees)[<<>>].raw_total, unique |-> Head(trees)[<<>>].unique_total],
               GrandTotals(Tail(trees)))

SummaryOf(trees) ==
  [trees |-> trees, grand_total_raw |-> GrandTotals(trees).raw,
   grand_total_unique |-> GrandTotals(trees).unique]

PrintPlanSummaryCategories(plan) ==
  SummaryOf([i \in 1..Len(plan) |-> RootSummary(plan[i])])

\* main: the plan of the harvested root is summarised
PlanSummary ==
  /\ pc = "harvested"
  /\ summary' = Some(PrintPlanSummaryCategories(
                  << [root |-> root_category, files_unique |-> files_unique,
                      raw_counter |-> raw_membership] >>))
  /\ pc' = "planned"
  /\ UNCHANGED << FILE_EXTS, root_category, max_depth, q, seen_categories, files_unique,
                  raw_membership, visits, catalogue >>
  /\ UNCHANGED << selectVars, sanitizeVars, downloadVars, listVars, fetchVars, mainVars >>

(***************************************************************************)
(* build_global_selection                                                  *)
(***************************************************************************)
\* faulty variant of Casefold: the sort key keeps the case of the title
CasefoldKeepingCase(title) == title

\* x.casefold(), the sort key of both orderings
Casefold(title) == Lower(title)

\* a <= b for two sort keys
KeyLeq(a, b) == ~StrLess(b, a)

\* list.sort / sorted on records carrying their sort key in .key: a stable
\* sort, here by insertion (an element goes after the elements whose key is
\* not greater)
RECURSIVE InsertByKey(_, _)
InsertByKey(sorted, x) ==
  IF sorted = <<>> THEN << x >>
  ELSE LET last == sorted[Len(sorted)]
       IN  IF KeyLeq(last.key, x.key) THEN Append(sorted, x)
           ELSE Append(InsertByKey(SubSeq(sorted, 1, Len(sorted) - 1), x), last)

RECURSIVE SortFrom(_, _)
SortFrom(sorted, rest) ==
  IF rest = <<>> THEN sorted
  ELSE SortFrom(InsertByKey(sorted, Head(rest)), Tail(rest))

StableSort(xs) == SortFrom(<<>>, xs)

\* the inner loop of order "title": one entry per item of one root's dict
EntriesOfRoot(root, fu) ==
  [i \in 1..Len(fu) |-> [key |-> Casefold(fu[i].title), root |-> root,
                         title |-> fu[i].title, meta |-> fu[i]]]

RECURSIVE ConcatEntries(_)
ConcatEntries(plan) ==
  IF plan = <<>> THEN <<>>
  ELSE EntriesOfRoot(Head(plan).root, Head(plan).files_unique) \o ConcatEntries(Tail(plan))

\* order == "title": all entries of all roots, then pool.sort(key=lambda x: x[0])
TitlePool(plan) == StableSort(ConcatEntries(plan))

\* root_map = {r: fu for (r, fu, _raw) in grand_plan}; root_map.get(root, {})
RootMapGet(plan, root) ==
  IF \E i \in 1..Len(plan) : plan[i].root = root
  THEN plan[CHOOSE i \in 1..Len(plan) :
              plan[i].root = root /\ \A j \in (i + 1)..Len(plan) : plan[j].root # root].files_unique
  ELSE <<>>

\* for t in sorted(fu.keys(), key=str.casefold): pool.append(("", root, t, fu[t]))
SortedEntriesOfRoot(root, fu) ==
  LET keyed == [i \in 1..Len(fu) |-> [key |-> Casefold(fu[i].title), meta |-> fu[i]]]
      metas == StableSort(keyed)
  IN  [i \in 1..Len(metas) |-> [key |-> <<>>, root |-> root,
                                title |-> metas[i].meta.title, meta |-> metas[i].meta]]

\* faulty variant of RootOrder: the roots are walked in alphabetical order
RootOrderSorted(roots) ==
  LET sorted == StableSort([i \in 1..Len(roots) |-> [key |-> roots[i]]])
  IN  [i \in 1..Len(sorted) |-> sorted[i].key]

\* "for root in normalized_roots": the order in which the roots are walked
RootOrder(roots) == roots

RECURSIVE ConcatSortedRoots(_, _)
ConcatSortedRoots(plan, roots) ==
  IF roots = <<>> THEN <<>>
  ELSE SortedEntriesOfRoot(Head(roots), RootMapGet(plan, Head(roots)))
         \o ConcatSortedRoots(plan, Tail(roots))

\* order "root_then_title" (any order other than "title")
RootThenTitlePool(plan, roots) == ConcatSortedRoots(plan, RootOrder(roots))

OrderTitle == "title"
OrderRootThenTitle == "root_then_title"

FlattenPool(plan, roots, order) ==
  IF order = OrderTitle THEN TitlePool(plan) ELSE RootThenTitlePool(plan, roots)

\* x or 1, for an optional integer
OrOne(x) == IF x = None \/ x[1] = 0 THEN 1 ELSE x[1]

Max(a, b) == IF a >= b THEN a ELSE b
Min(a, b) == IF a <= b THEN a ELSE b

\* faulty variant of SliceStart: the 1-based start is used as a 0-based one
SliceStartOneBased(start_1based) == Max(0, OrOne(start_1based))

\* start = max(0, (start_1based or 1) - 1)
SliceStart(start_1based) == Max(0, OrOne(start_1based) - 1)

\* xs[start:end] for start >= 0 and an optional end
PySlice(xs, start, end) ==
  LET n == Len(xs)
      stop == IF end = None THEN n
              ELSE IF end[1] < 0 THEN Max(0, n + end[1])
              ELSE Min(end[1], n)
  IN  SubSeq(xs, Min(start, n) + 1, stop)

\* the 0-based slice, taken only when one of the bounds is given
SlicePool(pool, start_1based, end_1based) ==
  IF start_1based # None \/ end_1based # None
  THEN PySlice(pool, SliceStart(start_1based), end_1based)
  ELSE pool

\* d[title] = meta on an insertion-ordered dict of records
DictSet(fu, meta) ==
  IF HasTitle(fu, meta.title)
  THEN [i \in 1..Len(fu) |-> IF fu[i].title = meta.title THEN meta ELSE fu[i]]
  ELSE Append(fu, meta)

\* selected_by_root.setdefault(root, {})[title] = meta
GroupOne(groups, entry) ==
  IF \E i \in 1..Len(groups) : groups[i].root = entry.root
  THEN [i \in 1..Len(groups) |->
          IF groups[i].root = entry.root
          THEN [root |-> entry.root, files |-> DictSet(groups[i].files, entry.meta)]
          ELSE groups[i]]
  ELSE Append(groups, [root |-> entry.root, files |-> << entry.meta >>])

RECURSIVE GroupFrom(_, _)
GroupFrom(groups, pool) ==
  IF pool = <<>> THEN groups
  ELSE GroupFrom(GroupOne(groups, Head(pool)), Tail(pool))

\* "Group back by root"
GroupByRoot(pool) == GroupFrom(<<>>, pool)

RECURSIVE SumLens(_)
SumLens(groups) ==
  IF groups = <<>> THEN 0 ELSE Len(Head(groups).files) + SumLens(Tail(groups))

\* the pools a root's traversal may have returned: records found at the root
SelectTitles == { TitleZebra, TitleApple, TitleMango }
MaxPool == 3
UniquePools(root) ==
  { [i \in 1..Len(ts) |-> NewMeta(ts[i], root, <<>>)] : ts \in InjSeqsUpTo(SelectTitles, MaxPool) }

\* main: one (root, files_unique, raw) per root of normalized_roots, in order
RECURSIVE GrandPlans(_)
GrandPlans(roots) ==
  IF roots = <<>> THEN { <<>> }
  ELSE { << [root |-> Head(roots), files_unique |-> fu] >> \o rest :
           fu \in UniquePools(Head(roots)), rest \in GrandPlans(Tail(roots)) }

\* the largest slice bound tried
MaxBound == 4
OptionalBounds == { None } \cup { Some(n) : n \in 0..MaxBound }

\* the roots main passes on: CATEGORIES normalised, listed in any order
RootLists ==
  { r \in InjSeqsUpTo({ NormalizedRoots[i] : i \in 1..Len(NormalizedRoots) },
                      Len(NormalizedRoots)) : r # <<>> }

NoSelection == [pool |-> <<>>, sliced |-> <<>>, selected_by_root |-> <<>>,
                total_pool |-> 0, selected_count |-> 0]

SelectStart ==
  /\ pc = "select"
  /\ \E roots \in RootLists :
     \E plan \in GrandPlans(roots) :
     \E s \in OptionalBounds, e \in OptionalBounds :
     \E order \in { OrderTitle, OrderRootThenTitle } :
       selectArgs = [grand_plan |-> plan, normalized_roots |-> roots,
                     start_1based |-> s, end_1based |-> e, order |-> order]
  /\ selectResult = NoSelection

\* build_global_selection, from the flattening to the return
BuildGlobalSelection ==
  /\ pc = "select"
  /\ LET pool == FlattenPool(selectArgs.grand_plan, selectArgs.normalized_roots,
                             selectArgs.order)
         sliced == SlicePool(pool, selectArgs.start_1based, selectArgs.end_1based)
         groups == GroupByRoot(sliced)
     IN  selectResult' = [pool |-> pool, sliced |-> sliced, selected_by_root |-> groups,
                          total_pool |-> Len(pool), selected_count |-> SumLens(groups)]
  /\ pc' = "selected"
  /\ UNCHANGED << selectArgs, harvestVars, sanitizeVars, downloadVars, listVars, fetchVars, mainVars >>

(***************************************************************************)
(* sanitize_filename                                                       *)
(***************************************************************************)
FULL_PATH_BUDGET == 250
\* the default of the parameter max_length
DefaultMaxLength == 120

\* the characters replaced by "_"
InvalidChars == { "\"", "#", "%", "&", "{", "}", "\\", "<", ">", "|", ":", "*", "?", "/" }

\* step 1: replace the illegal characters, strip trailing dots and spaces
CleanName(filename) ==
  RStrip([i \in 1..Len(filename) |->
            IF filename[i] \in InvalidChars THEN "_" ELSE filename[i]],
         { " ", "." })

\* os.path.splitext on a name without separators: the extension starts at
\* the last dot, unless only dots precede it
SplitExt(name) ==
  LET dots == { i \in 1..Len(name) : name[i] = "." }
  IN  IF dots = {} THEN [stem |-> name, ext |-> <<>>]
      ELSE LET dot == CHOOSE i \in dots : \A j \in dots : j <= i
           IN  IF \E j \in 1..(dot - 1) : name[j] # "."
               THEN [stem |-> SubSeq(name, 1, dot - 1), ext |-> SubSeq(name, dot, Len(name))]
               ELSE [stem |-> name, ext |-> <<>>]

\* step 3: the per-name cap, applied to the stem before the suffix is added
CapStem(stem, ext, name, max_length) ==
  IF Len(name) > max_length THEN Prefix(stem, Max(1, max_length - Len(ext))) ELSE stem

\* the reserved device names
ReservedNames ==
  { << "c", "o", "n" >>, << "p", "r", "n" >>, << "a", "u", "x" >>, << "n", "u", "l" >> }
    \cup { << "c", "o", "m", Digits[i + 1] >> : i \in 1..9 }
    \cup { << "l", "p", "t", Digits[i + 1] >> : i \in 1..9 }

\* step 4: a reserved stem gets "_" appended
DefuseReserved(stem) ==
  IF Lower(Strip(stem, { ".", " " })) \in ReservedNames THEN stem \o << "_" >> ELSE stem

\* _short_hash(text): eight hexadecimal digits that depend on the text alone
\* (the digest is abstracted by a checksum of the length and the outer code
\* points of the text)
HexDigits == << "0", "1", "2", "3", "4", "5", "6", "7", "8", "9",
                "a", "b", "c", "d", "e", "f" >>
CodeAt(text, i) == IF i >= 1 /\ i <= Len(text) THEN Ord(text[i]) ELSE 0
Checksum(text) ==
  (Len(text) * 131 + CodeAt(text, 1) * 7 + CodeAt(text, 2) * 11
     + CodeAt(text, Len(text) - 1) * 17 + CodeAt(text, Len(text)) * 13) % 65536

HashLength == 8
ShortHash(text) ==
  LET h == Checksum(text)
  IN  [k \in 1..HashLength |-> HexDigits[((h \div (2 ^ (k - 1))) % 16) + 1]]

\* step 5: "--<MID>" for a non-blank mid, else "--NO-MID-<hash of the raw name>"
NameSuffix(mid, original) ==
  IF mid # None /\ Strip(mid[1], { " " }) # <<>>
  THEN << "-", "-" >> \o Strip(mid[1], { " " })
  ELSE << "-", "-", "N", "O", "-", "M", "I", "D", "-" >> \o ShortHash(original)

\* full_path_budget or FULL_PATH_BUDGET
BudgetOf(full_path_budget) ==
  IF full_path_budget = None \/ full_path_budget[1] = 0 THEN FULL_PATH_BUDGET
  ELSE full_path_budget[1]

\* step 6: the characters left for stem + suffix + ext
AvailableForName(folder, max_length, full_path_budget, suffix, ext) ==
  IF folder # None /\ folder[1] # <<>>
  THEN LET abs_dir == folder[1]
           available == BudgetOf(full_path_budget) - Len(abs_dir) - 1
       IN  IF available < Len(ext) + Len(suffix) + 1
           THEN Len(ext) + Len(suffix) + 1
           ELSE available
  ELSE max_length

\* faulty variant of TrimStem: the room for the stem has no floor of one
TrimStemWithoutFloor(stem, suffix, ext, available_for_name) ==
  IF Len(stem) + Len(suffix) + Len(ext) > available_for_name
  THEN Prefix(stem, available_for_name - Len(suffix) - Len(ext))
  ELSE stem

\* faulty variant of TrimStem: the room for the stem forgets the extension
TrimStemForgettingExt(stem, suffix, ext, available_for_name) ==
  IF Len(stem) + Len(suffix) + Len(ext) > available_for_name
  THEN Prefix(stem, Max(1, available_for_name - Len(suffix)))
  ELSE stem

\* step 7: trim the stem to fit stem + suffix + ext into the room
TrimStem(stem, suffix, ext, available_for_name) ==
  IF Len(stem) + Len(suffix) + Len(ext) > available_for_name
  THEN Prefix(stem, Max(1, available_for_name - Len(suffix) - Len(ext)))
  ELSE stem

\* sanitize_filename: the name and the locals it is built from
SanitizeFilename(filename, folder, max_length, full_path_budget, mid) ==
  LET name == CleanName(filename)
      parts == SplitExt(name)
      ext == parts.ext
      stem1 == DefuseReserved(CapStem(parts.stem, ext, name, max_length))
      suffix == NameSuffix(mid, filename)
      available == AvailableForName(folder, max_length, full_path_budget, suffix, ext)
      stem == TrimStem(stem1, suffix, ext, available)
  IN  [ safe_name |-> stem \o suffix \o ext, stem |-> stem, suffix |-> suffix,
        ext |-> ext, available_for_name |-> available ]

\* the raw names tried: a plain name, long stems, reserved stems, illegal and
\* trailing characters, a leading dot, a long extension, the empty name
LongStem == 30
LongName == 125
RawNames ==
  { << "a", ".", "j", "p", "g" >>,
    Rep("a", LongStem) \o << ".", "j", "p", "g" >>,
    Rep("a", LongName) \o << ".", "j", "p", "g" >>,
    << "n", "u", "l", ".", "j", "p", "g" >>,
    << "C", "O", "N" >>,
    << "a", ":", "b", "/", "c", ".", "p", "n", "g" >>,
    << "a", ".", "j", "p", "g", ".", " " >>,
    << ".", "j", "p", "g" >>,
    << "a", "." >> \o Rep("x", LongStem),
    <<>> }

\* the absolute folder of n characters; os.path.abspath leaves it as it is
AbsDir(n) == << "/" >> \o Rep("d", n - 1)
MaxDirLen == 45
Folders == { None } \cup { Some(AbsDir(n)) : n \in 1..MaxDirLen }

\* the smallest full-path budget the guarantee is claimed for
MinBudget == 40
RoomyBudget == 60
Budgets == { None, Some(MinBudget), Some(RoomyBudget) }

SmallMaxLength == 20
MaxLengths == { SmallMaxLength, DefaultMaxLength }

Mids == { None, Some(<< "M", "1", "5" >>), Some(<< " " >>), Some(<< " ", "M", "1", "5" >>) }

SanitizeStart ==
  /\ pc = "sanitize"
  /\ \E filename \in RawNames, folder \in Folders, max_length \in MaxLengths :
     \E budget \in Budgets, mid \in Mids :
       sanitizeArgs = [filename |-> filename, folder |-> folder, max_length |-> max_length,
                       full_path_budget |-> budget, mid |-> mid]
  /\ sanitizeResult = <<>>

\* one call of sanitize_filename
SanitizeFilenameCall ==
  /\ pc = "sanitize"
  /\ sanitizeResult' = SanitizeFilename(sanitizeArgs.filename, sanitizeArgs.folder,
                                        sanitizeArgs.max_length,
                                        sanitizeArgs.full_path_budget, sanitizeArgs.mid)
  /\ pc' = "sanitized"
  /\ UNCHANGED << sanitizeArgs, harvestVars, selectVars, downloadVars, listVars, fetchVars, mainVars >>

(***************************************************************************)
(* download_file, append_rows_to_excel_log, perform_downloads              *)
(***************************************************************************)
\* the literals of the URLs the code builds or tests
WikiUrlPrefix == << "h", "t", "t", "p", "s", ":", "/", "/", "c", "o", "m", "m", "o", "n", "s", ".", "w", "i", "k", "i", "m", "e", "d", "i", "a", ".", "o", "r", "g", "/", "w", "i", "k", "i", "/" >>
EntityUrlPrefix == << "h", "t", "t", "p", "s", ":", "/", "/", "c", "o", "m", "m", "o", "n", "s", ".", "w", "i", "k", "i", "m", "e", "d", "i", "a", ".", "o", "r", "g", "/", "e", "n", "t", "i", "t", "y", "/" >>
UploadUrlPrefix == << "h", "t", "t", "p", "s", ":", "/", "/", "u", "p", "l", "o", "a", "d", ".", "w", "i", "k", "i", "m", "e", "d", "i", "a", ".", "o", "r", "g", "/" >>
\* a host other than the upload host, as the final URL of a redirect chain
OtherHostUrl == << "h", "t", "t", "p", "s", ":", "/", "/", "e", "x", "a", "m", "p", "l", "e", ".", "o", "r", "g", "/", "x" >>

\* LOCAL_BASE_FOLDER, already absolute, and LIST_DOWNLOAD_SUBFOLDER
LOCAL_BASE_FOLDER == << "/", "d", "w", "n", "l", "d", "s" >>
LIST_DOWNLOAD_SUBFOLDER == << "l", "i", "s", "t" >>
LIST_SOURCE_TAG == << "M", "a", "n", "u", "a", "l", " ", "l", "i", "s", "t" >>

\* ensure_folder for an item without path segments: base / root_segment
EnsureFolder(base, root_segment) ==
  IF root_segment # <<>> THEN base \o << "/" >> \o root_segment ELSE base

\* "if create and not DRY_RUN": whether ensure_folder makes the directories
CreatesFolder(create, dry) == create /\ ~dry

\* os.path.relpath(folder, start=base_folder), "." read as ""
SubfolderRel(folder, base) ==
  IF folder = base THEN <<>> ELSE SubSeq(folder, Len(base) + 2, Len(folder))

\* the items a selection is made of: title and mid as the planners store them;
\* the second has no MediaInfo ID
ItemA == [title |-> TitleA, mid |-> << "M", "1", "1" >>, source_category |-> LIST_SOURCE_TAG]
ItemE == [title |-> TitleC, mid |-> <<>>, source_category |-> LIST_SOURCE_TAG]
ItemB == [title |-> TitleB, mid |-> << "M", "1", "2" >>, source_category |-> LIST_SOURCE_TAG]
Selectable == << ItemA, ItemE, ItemB >>

\* the most items one selection holds, the largest flush size, and the number
\* of times the pipeline is run over the selection
MaxFiles == 3
MaxFlushRows == 2
MaxRuns == 2

\* what the network and the local disk do to one item: the byte fetch
\* succeeds, fails before the first byte or breaks in the body, or the bytes
\* arrive and the local file cannot be opened for writing; the fetch ends on
\* the upload host or on another host; the imageinfo lookup answers a URL,
\* answers nothing or fails
NetOutcomes ==
  [ get : { "ok" }, host : { "upload", "other" }, api : { "url", "empty", "error" } ]
    \cup [ get : { "error", "broken", "unwritable" }, host : { "upload" }, api : { "url" } ]

\* resolve_upload_url_via_api for a title, under the lookup's outcome
ResolveUploadUrl(title, api) ==
  IF api = "url" THEN UploadUrlPrefix \o Replace(title, FilePrefix, <<>>) ELSE <<>>

\* title or f"File:{filename}"
LookupTitle(title, filename) == IF title # <<>> THEN title ELSE FilePrefix \o filename

\* faulty variant of TakesDryBranch: the dry branch is never taken
NeverTakesDryBranch(dry_run) == FALSE

\* "if dry_run": the branch that resolves the URL and returns
TakesDryBranch(dry_run) == dry_run

\* faulty variant of SkipsTransfer: a file on disk is fetched again
NeverSkipsTransfer(overwrite, exists) == FALSE

\* "if not OVERWRITE_EXISTING and os.path.exists(out_path)"
SkipsTransfer(overwrite, exists) == ~overwrite /\ exists

\* download_file in the branches that only ask for the upload URL
LookupOnly(safe_name, exists, title, api) ==
  [ raised |-> api = "error", safe_name |-> safe_name,
    resolved_url |-> ResolveUploadUrl(title, api),
    existed |-> exists, looked_up |-> TRUE, transferred |-> FALSE,
    wrote |-> FALSE, write_failed |-> FALSE ]

\* download_file when the fetch or the write raises
FetchRaised(safe_name, exists, transferred, wrote, write_failed) ==
  [ raised |-> TRUE, safe_name |-> safe_name, resolved_url |-> <<>>,
    existed |-> exists, looked_up |-> FALSE, transferred |-> transferred,
    wrote |-> wrote, write_failed |-> write_failed ]

\* download_file after the bytes are stored: the safety lookup when the
\* fetch did not end on the upload host
Fetched(safe_name, exists, r_url, asks, api_url, api) ==
  [ raised |-> asks /\ api = "error", safe_name |-> safe_name,
    resolved_url |-> IF asks /\ api_url # <<>> THEN api_url ELSE r_url,
    existed |-> exists, looked_up |-> asks, transferred |-> TRUE,
    wrote |-> ~DRY_RUN, write_failed |-> FALSE ]

FetchedFrom(safe_name, exists, r_url, title, api) ==
  Fetched(safe_name, exists, r_url, ~StartsWith(r_url, UploadUrlPrefix),
          ResolveUploadUrl(title, api), api)

\* download_file once the safe name is known
DownloadAs(safe_name, exists, filename, title, dry_run, net) ==
  IF TakesDryBranch(dry_run) THEN LookupOnly(safe_name, exists, title, net.api)
  ELSE IF SkipsTransfer(OVERWRITE_EXISTING, exists)
       THEN LookupOnly(safe_name, exists, title, net.api)
  ELSE IF net.get = "error" THEN FetchRaised(safe_name, exists, FALSE, FALSE, FALSE)
  ELSE IF net.get = "broken" THEN FetchRaised(safe_name, exists, TRUE, ~DRY_RUN, FALSE)
  ELSE IF net.get = "unwritable" /\ ~DRY_RUN
       THEN FetchRaised(safe_name, exists, TRUE, FALSE, TRUE)
  ELSE FetchedFrom(safe_name, exists,
                   IF net.host = "upload" THEN UploadUrlPrefix \o filename ELSE OtherHostUrl,
                   title, net.api)

DownloadNamed(safe_name, filename, title, dry_run, net) ==
  DownloadAs(safe_name, safe_name \in disk, filename, LookupTitle(title, filename),
             dry_run, net)

\* download_file: what it returns or raises, and what it did on the way
DownloadFile(folder, filename, mid, title, dry_run, net) ==
  DownloadNamed(SanitizeFilename(filename, Some(folder), DefaultMaxLength,
                                 Some(FULL_PATH_BUDGET), Some(mid)).safe_name,
                filename, title, dry_run, net)

\* the value pandas reads from an empty cell
NA == << "NA" >>

\* DataFrame.to_excel: an empty string is stored as an empty cell
ToCell(v) == IF v = <<>> THEN NA ELSE v
ToExcel(rows) == [i \in 1..Len(rows) |-> [c \in DOMAIN rows[i] |-> ToCell(rows[i][c])]]

\* pd.read_excel(..., dtype="string"): text stays text, an empty cell is NA
ReadExcel(stored) == stored

\* dedupe_keys
DedupeKey(row) == << row.CommonsFileURL, row.MediaInfoID >>

\* drop_duplicates(subset=dedupe_keys, keep="first")
RECURSIVE DropDuplicates(_, _)
DropDuplicates(kept, rest) ==
  IF rest = <<>> THEN kept
  ELSE IF \E i \in 1..Len(kept) : DedupeKey(kept[i]) = DedupeKey(Head(rest))
       THEN DropDuplicates(kept, Tail(rest))
       ELSE DropDuplicates(Append(kept, Head(rest)), Tail(rest))

\* append_rows_to_excel_log: the sheet it leaves
AppendRowsToExcelLog(log, rows, dry) ==
  IF dry THEN log
  ELSE IF rows = <<>> THEN log
  ELSE IF log = None THEN Some(ToExcel(rows))
  ELSE Some(ToExcel(DropDuplicates(<<>>, ReadExcel(log[1]) \o rows)))

\* the row of one processed item
LogRow(title, meta, upload_url, base_folder, subfolder_rel, stored_name) ==
  [ CommonsFileName |-> title,
    CommonsFileURL |-> WikiUrlPrefix \o title,
    MediaInfoID |-> meta.mid,
    CommonsConceptURI |-> IF meta.mid # <<>> THEN EntityUrlPrefix \o meta.mid ELSE <<>>,
    CommonsImageURL |-> upload_url,
    SourceCategory |-> meta.source_category,
    LocalBaseFolder |-> base_folder,
    CommonsCategoryPath |-> <<>>,
    LocalSubFolder |-> subfolder_rel,
    LocalFilename |-> stored_name ]

\* faulty variant of NextIndexOnError: an error ends the loop
LastIndexOnError(i, total) == total

\* "except Exception: ... continue": the loop goes on with the next item
NextIndexOnError(i, total) == i + 1

\* faulty variant of ShouldFlush: the buffer is flushed one row late
ShouldFlushLate(dry, flush_rows, buffered) == ~dry /\ flush_rows # 0 /\ buffered > flush_rows

\* "if not DRY_RUN and log_flush_rows and len(rows_buffer) >= log_flush_rows"
ShouldFlush(dry, flush_rows, buffered) == ~dry /\ flush_rows # 0 /\ buffered >= flush_rows

\* "would save as" if DRY_RUN else "saved as"
Verb(dry) == IF dry THEN "would save as" ELSE "saved as"

\* what the run printed for an item, and what download_file did for it
Served(title, verb, res) ==
  [ title |-> title, verb |-> verb, stored_name |-> res.safe_name,
    resolved_url |-> res.resolved_url,
    existed |-> res.existed, looked_up |-> res.looked_up,
    transferred |-> res.transferred, wrote |-> res.wrote,
    write_failed |-> res.write_failed ]

\* main: the base folder is made unless DRY_RUN, then perform_downloads is
\* called on the selection
DownloadStart ==
  /\ pc = "download"
  /\ DRY_RUN \in BOOLEAN
  /\ OVERWRITE_EXISTING \in BOOLEAN
  /\ log_flush_rows \in 0..MaxFlushRows
  /\ \E n \in 0..MaxFiles : files = SubSeq(Selectable, 1, Min(n, Len(Selectable)))
  /\ idx = 0
  /\ rows_buffer = <<>>
  /\ written = 0
  /\ disk = {}
  /\ folders = IF DRY_RUN THEN {} ELSE { LOCAL_BASE_FOLDER }
  /\ sheet = None
  /\ served = <<>>
  /\ flushes = <<>>
  /\ runs = <<>>

\* the end of a pass whose fetch did not raise: the row is buffered, the item
\* counted, and the buffer flushed when it is full
KeepRow(title, res, buffer, flush) ==
  /\ idx' = idx + 1
  /\ written' = written + 1
  /\ served' = Append(served, Served(title, Verb(DRY_RUN), res))
  /\ rows_buffer' = IF flush THEN <<>> ELSE buffer
  /\ sheet' = IF flush THEN AppendRowsToExcelLog(sheet, buffer, DRY_RUN) ELSE sheet
  /\ flushes' = IF flush THEN Append(flushes, buffer) ELSE flushes

BufferRow(title, res, buffer) ==
  KeepRow(title, res, buffer, ShouldFlush(DRY_RUN, log_flush_rows, Len(buffer)))

\* a pass of the loop after download_file has returned or raised
ServeItem(meta, subfolder_rel, res) ==
  /\ disk' = IF res.wrote THEN disk \cup { res.safe_name } ELSE disk
  /\ IF res.raised
     THEN /\ idx' = NextIndexOnError(idx, Len(files))
          /\ served' = Append(served, Served(meta.title, "ERROR", res))
          /\ UNCHANGED << rows_buffer, written, sheet, flushes >>
     ELSE BufferRow(meta.title, res,
                    Append(rows_buffer,
                           LogRow(meta.title, meta, res.resolved_url, LOCAL_BASE_FOLDER,
                                  subfolder_rel, res.safe_name)))

\* a pass of the loop for the item meta, stored under folder
TakeItem(meta, folder, net) ==
  /\ folders' = IF CreatesFolder(~DRY_RUN, DRY_RUN) THEN folders \cup { folder } ELSE folders
  /\ ServeItem(meta, SubfolderRel(folder, LOCAL_BASE_FOLDER),
               DownloadFile(folder, Replace(meta.title, FilePrefix, <<>>), meta.mid,
                            meta.title, DRY_RUN, net))

\* one pass of the loop of perform_downloads
PerformItem ==
  /\ pc = "download"
  /\ idx < Len(files)
  /\ \E net \in NetOutcomes :
       TakeItem(files[idx + 1], EnsureFolder(LOCAL_BASE_FOLDER, LIST_DOWNLOAD_SUBFOLDER), net)
  /\ UNCHANGED << pc, DRY_RUN, OVERWRITE_EXISTING, log_flush_rows, files, runs >>
  /\ UNCHANGED << harvestVars, selectVars, sanitizeVars, listVars, fetchVars, mainVars >>

\* the end of the loop: the final flush and the return
PerformReturn ==
  /\ pc = "download"
  /\ idx >= Len(files)
  /\ LET flush == ~DRY_RUN /\ rows_buffer # <<>>
         after == AppendRowsToExcelLog(sheet, rows_buffer, DRY_RUN)
     IN  /\ sheet' = IF flush THEN after ELSE sheet
         /\ rows_buffer' = IF flush THEN <<>> ELSE rows_buffer
         /\ flushes' = IF flush THEN Append(flushes, rows_buffer) ELSE flushes
         /\ runs' = Append(runs, [ written |-> written,
                                   after |-> IF flush THEN after ELSE sheet ])
  /\ pc' = "downloaded"
  /\ UNCHANGED << DRY_RUN, OVERWRITE_EXISTING, log_flush_rows, files, idx, written,
                  disk, folders, served >>
  /\ UNCHANGED << harvestVars, selectVars, sanitizeVars, listVars, fetchVars, mainVars >>

\* the pipeline is run once more over the unchanged selection
RunAgain ==
  /\ pc = "downloaded"
  /\ Len(runs) < MaxRuns
  /\ pc' = "download"
  /\ idx' = 0
  /\ rows_buffer' = <<>>
  /\ written' = 0
  /\ served' = <<>>
  /\ flushes' = <<>>
  /\ folders' = IF DRY_RUN THEN folders ELSE folders \cup { LOCAL_BASE_FOLDER }
  /\ UNCHANGED << DRY_RUN, OVERWRITE_EXISTING, log_flush_rows, files, disk, sheet, runs >>
  /\ UNCHANGED << harvestVars, selectVars, sanitizeVars, listVars, fetchVars, mainVars >>

(***************************************************************************)
(* Input parsing, the lookups by title and by ID, plan_from_list           *)
(***************************************************************************)
\* sub in s
Contains(s, sub) ==
  \E i \in 1..(Len(s) - Len(sub) + 1) : SubSeq(s, i, i + Len(sub) - 1) = sub

\* s.find(sub), 0 when absent, else the 1-based position
Find(s, sub) ==
  IF Contains(s, sub)
  THEN CHOOSE i \in 1..(Len(s) - Len(sub) + 1) :
         /\ SubSeq(s, i, i + Len(sub) - 1) = sub
         /\ \A j \in 1..(i - 1) : SubSeq(s, j, j + Len(sub) - 1) # sub
  ELSE 0

\* urlparse(url).netloc and .path, for a URL without query and fragment
UrlNetloc(url) ==
  LET at == Find(url, << "/", "/" >>)
  IN  IF at = 0 THEN <<>>
      ELSE LET rest == SubSeq(url, at + 2, Len(url))
               slash == Find(rest, << "/" >>)
           IN  IF slash = 0 THEN rest ELSE SubSeq(rest, 1, slash - 1)

UrlPath(url) ==
  LET at == Find(url, << "/", "/" >>)
  IN  IF at = 0 THEN url
      ELSE LET rest == SubSeq(url, at + 2, Len(url))
               slash == Find(rest, << "/" >>)
           IN  IF slash = 0 THEN <<>> ELSE SubSeq(rest, slash, Len(rest))

\* s.split("/")
RECURSIVE SplitSlash(_)
SplitSlash(s) ==
  LET slash == Find(s, << "/" >>)
  IN  IF slash = 0 THEN << s >>
      ELSE << SubSeq(s, 1, slash - 1) >> \o SplitSlash(SubSeq(s, slash + 1, Len(s)))

\* urllib.parse.unquote, for the escapes of blank, colon and slash
RECURSIVE Unquote(_)
Unquote(s) ==
  IF s = <<>> THEN <<>>
  ELSE IF Len(s) >= 3 /\ SubSeq(s, 1, 3) = << "%", "2", "0" >>
       THEN << " " >> \o Unquote(SubSeq(s, 4, Len(s)))
  ELSE IF Len(s) >= 3 /\ SubSeq(s, 1, 3) = << "%", "3", "A" >>
       THEN << ":" >> \o Unquote(SubSeq(s, 4, Len(s)))
  ELSE IF Len(s) >= 3 /\ SubSeq(s, 1, 3) = << "%", "2", "F" >>
       THEN << "/" >> \o Unquote(SubSeq(s, 4, Len(s)))
  ELSE << Head(s) >> \o Unquote(Tail(s))

IsDigit(c) == \E i \in 1..Len(Digits) : Digits[i] = c

\* the longest run of digits at the start of s
RECURSIVE DigitRun(_)
DigitRun(s) ==
  IF s # <<>> /\ IsDigit(Head(s)) THEN << Head(s) >> \o DigitRun(Tail(s)) ELSE <<>>

\* extract_mid_from_uri: re.search(r"(?:^|/|=)(M\d+)(?:$|[^0-9])", s)
MidStarts(s) ==
  { i \in 1..Len(s) :
      /\ s[i] = "M"
      /\ i = 1 \/ s[i - 1] \in { "/", "=" }
      /\ DigitRun(SubSeq(s, i + 1, Len(s))) # <<>> }

ExtractMidFromUri(s) ==
  IF MidStarts(s) = {} THEN <<>>
  ELSE LET i == CHOOSE k \in MidStarts(s) : \A j \in MidStarts(s) : k <= j
       IN  << "M" >> \o DigitRun(SubSeq(s, i + 1, Len(s)))

HostUpload == << "u", "p", "l", "o", "a", "d", ".", "w", "i", "k", "i", "m", "e", "d", "i", "a", ".", "o", "r", "g" >>
HostCommons == << "c", "o", "m", "m", "o", "n", "s", ".", "w", "i", "k", "i", "m", "e", "d", "i", "a", ".", "o", "r", "g" >>

\* is_upload_url
IsUploadUrl(url) == Contains(Lower(UrlNetloc(url)), HostUpload)

\* parse_title_from_commons_url
ParseTitleFromCommonsUrl(url) ==
  IF ~Contains(Lower(UrlNetloc(url)), HostCommons) THEN <<>>
  ELSE LET parts == SplitSlash(UrlPath(url))
           n == Len(parts)
           wikis == { i \in 1..n : Lower(parts[i]) = << "w", "i", "k", "i" >> }
           fileOrNone(last) == IF StartsWith(last, FilePrefix) THEN last ELSE <<>>
       IN  IF n >= 3 /\ Lower(parts[n - 1]) = << "w", "i", "k", "i" >>
           THEN fileOrNone(Unquote(parts[n]))
           ELSE IF wikis # {}
                THEN LET i == CHOOSE k \in wikis : \A j \in wikis : k <= j
                     IN  IF i + 1 <= n THEN fileOrNone(Unquote(parts[i + 1])) ELSE <<>>
                ELSE <<>>

\* normalize_title
NormalizeTitle(raw) ==
  LET t == Strip(raw, { " " })
  IN  IF t = <<>> THEN <<>>
      ELSE IF StartsWith(Lower(t), Lower(FilePrefix))
           THEN FilePrefix \o Strip(SubSeq(t, Len(FilePrefix) + 1, Len(t)), { " " })
           ELSE FilePrefix \o t

\* "/".join(parts)
RECURSIVE JoinSlash(_)
JoinSlash(parts) ==
  IF parts = <<>> THEN <<>>
  ELSE IF Len(parts) = 1 THEN parts[1]
  ELSE parts[1] \o << "/" >> \o JoinSlash(Tail(parts))

\* canonicalize_upload_url: a thumbnail URL loses "/thumb" and its last segment
CanonicalizeUploadUrl(url) ==
  LET path == UrlPath(url)
      parts == SplitSlash(path)
      thumbs == { i \in 1..Len(parts) : parts[i] = << "t", "h", "u", "m", "b" >> }
  IN  IF ~Contains(path, << "/", "t", "h", "u", "m", "b", "/" >>) THEN url
      ELSE LET at == CHOOSE k \in thumbs : \A j \in thumbs : k <= j
               base == SubSeq(parts, 1, at - 1) \o SubSeq(parts, at + 1, Len(parts))
               kept == SubSeq(base, 1, Len(base) - 1)
           IN  SubSeq(url, 1, Find(url, << "/", "/" >>) + 1) \o UrlNetloc(url)
                 \o JoinSlash(kept)

\* the pages the catalogue knows: File:A.jpg has page id 11
KnownTitle == TitleA
KnownMid == MidOf(PageId(TitleA))

\* what the API does to one lookup: it answers with the page (a missing page
\* has no pageid, a missing id no title), answers without pages, or the call
\* fails after the retries
LookupOutcomes == { "page", "nopages", "error" }

\* title_mid_url_from_title, when the call does not fail
TitleMidUrlFromTitle(title, net) ==
  IF net = "nopages" THEN [title |-> title, mid |-> <<>>, upload_url |-> <<>>]
  ELSE IF title = KnownTitle
       THEN [title |-> title, mid |-> KnownMid,
             upload_url |-> UploadUrlPrefix \o Replace(title, FilePrefix, <<>>)]
       ELSE [title |-> title, mid |-> <<>>, upload_url |-> <<>>]

\* title_mid_url_from_mid, when the call does not fail
TitleMidUrlFromMid(mid, net) ==
  IF net = "nopages" THEN [title |-> <<>>, mid |-> <<>>, upload_url |-> mid]
  ELSE IF mid = KnownMid
       THEN [title |-> KnownTitle, mid |-> mid,
             upload_url |-> UploadUrlPrefix \o Replace(KnownTitle, FilePrefix, <<>>)]
       ELSE [title |-> <<>>, mid |-> mid, upload_url |-> <<>>]

\* x or y, for strings
Or(x, y) == IF x # <<>> THEN x ELSE y

\* title_mid_url_from_upload_url, when the call does not fail: the lookup of
\* the title made from the last path segment, and the tuple returned
UploadAnswer(orig, title, got) ==
  [title |-> Or(got.title, title), mid |-> got.mid, upload_url |-> orig]

UploadLookup(orig, title, net) == UploadAnswer(orig, title, TitleMidUrlFromTitle(title, net))

UploadTitle(parts) == FilePrefix \o Unquote(parts[Len(parts)])

UploadOriginal(orig, net) == UploadLookup(orig, UploadTitle(SplitSlash(UrlPath(orig))), net)

TitleMidUrlFromUploadUrl(upload_url, net) ==
  UploadOriginal(CanonicalizeUploadUrl(upload_url), net)

\* branch A of the loop body: the cell holds an ID
ResolveMid(mid, got) ==
  [kind |-> "MID", asked |-> TRUE, title |-> got.title,
   mid |-> Or(got.mid, mid), upload_url |-> got.upload_url]

\* branch B, an upload URL
ResolveUpload(got) ==
  [kind |-> "ImageURL", asked |-> TRUE, title |-> got.title,
   mid |-> got.mid, upload_url |-> got.upload_url]

\* branch B, a page URL, and branch C, a file name: "title = t or g"
ResolveTitle(kind, guess, got) ==
  [kind |-> kind, asked |-> TRUE, title |-> Or(got.title, guess),
   mid |-> got.mid, upload_url |-> got.upload_url]

\* branch B, a URL that is not an upload URL: a page URL is looked up, any
\* other URL is left without a title (the ID was already looked for in A)
ResolvePageUrl(g, net) ==
  IF g # <<>> THEN ResolveTitle("FileURL", g, TitleMidUrlFromTitle(g, net))
  ELSE [kind |-> "URL", asked |-> FALSE, title |-> <<>>, mid |-> <<>>, upload_url |-> <<>>]

\* branch C
ResolveName(guess, net) == ResolveTitle("FileName", guess, TitleMidUrlFromTitle(guess, net))

\* the choice between the branches
ResolveBranch(raw, mid, net) ==
  IF mid # <<>> THEN ResolveMid(mid, TitleMidUrlFromMid(mid, net))
  ELSE IF StartsWith(Lower(raw), << "h", "t", "t", "p" >>)
       THEN IF IsUploadUrl(raw)
            THEN ResolveUpload(TitleMidUrlFromUploadUrl(raw, net))
            ELSE ResolvePageUrl(ParseTitleFromCommonsUrl(raw), net)
       ELSE ResolveName(NormalizeTitle(raw), net)

\* the loop body for a non-empty cell: the kind of input, whether a lookup
\* is made, and the identity the row resolves to
ResolveRaw(raw, net) == ResolveBranch(raw, ExtractMidFromUri(raw), net)

\* "if title not in files: files[title] = {...}"
PlanAdd(fu, found, source_cat) ==
  IF HasTitle(fu, found.title) THEN fu
  ELSE Append(fu, [title |-> found.title, mid |-> found.mid,
                   upload_url |-> found.upload_url, source_category |-> source_cat,
                   path_segments |-> <<>>])

\* the cells a list may hold: IDs, an entity URL, upload URLs, page URLs, bare
\* titles, a foreign URL and a blank cell; one of each pair names File:A.jpg
\* (page id 11), the other names nothing the catalogue knows; and the name of
\* a file that starts with "M" and digits
RawCells ==
  { << "M", "1", "5", ".", "j", "p", "g" >>,
    << "M", "1", "1" >>,
    << "M", "9", "9" >>,
    << "h", "t", "t", "p", "s", ":", "/", "/", "c", "o", "m", "m", "o", "n", "s", ".", "w", "i", "k", "i", "m", "e", "d", "i", "a", ".", "o", "r", "g", "/", "e", "n", "t", "i", "t", "y", "/", "M", "9", "9" >>,
    << "h", "t", "t", "p", "s", ":", "/", "/", "u", "p", "l", "o", "a", "d", ".", "w", "i", "k", "i", "m", "e", "d", "i", "a", ".", "o", "r", "g", "/", "x", "/", "A", ".", "j", "p", "g" >>,
    << "h", "t", "t", "p", "s", ":", "/", "/", "u", "p", "l", "o", "a", "d", ".", "w", "i", "k", "i", "m", "e", "d", "i", "a", ".", "o", "r", "g", "/", "x", "/", "t", "h", "u", "m", "b", "/", "N", ".", "j", "p", "g", "/", "9", "p", "x", "-", "N", ".", "j", "p", "g" >>,
    << "h", "t", "t", "p", "s", ":", "/", "/", "c", "o", "m", "m", "o", "n", "s", ".", "w", "i", "k", "i", "m", "e", "d", "i", "a", ".", "o", "r", "g", "/", "w", "i", "k", "i", "/", "F", "i", "l", "e", ":", "A", ".", "j", "p", "g" >>,
    << "h", "t", "t", "p", "s", ":", "/", "/", "c", "o", "m", "m", "o", "n", "s", ".", "w", "i", "k", "i", "m", "e", "d", "i", "a", ".", "o", "r", "g", "/", "w", "i", "k", "i", "/", "F", "i", "l", "e", ":", "N", ".", "j", "p", "g" >>,
    << "A", ".", "j", "p", "g" >>,
    << "N", ".", "j", "p", "g" >>,
    << "h", "t", "t", "p", "s", ":", "/", "/", "e", "x", "a", "m", "p", "l", "e", ".", "o", "r", "g", "/", "x" >>,
    << " " >> }

\* whether the cell names the known page
NamesKnownPage(raw) ==
  raw \in { << "M", "1", "1" >>,
            << "h", "t", "t", "p", "s", ":", "/", "/", "u", "p", "l", "o", "a", "d", ".", "w", "i", "k", "i", "m", "e", "d", "i", "a", ".", "o", "r", "g", "/", "x", "/", "A", ".", "j", "p", "g" >>,
            << "h", "t", "t", "p", "s", ":", "/", "/", "c", "o", "m", "m", "o", "n", "s", ".", "w", "i", "k", "i", "m", "e", "d", "i", "a", ".", "o", "r", "g", "/", "w", "i", "k", "i", "/", "F", "i", "l", "e", ":", "A", ".", "j", "p", "g" >>,
            << "A", ".", "j", "p", "g" >> }

\* the most rows a list holds
MaxRows == 2

ListStart ==
  /\ pc = "resolve"
  /\ list_rows \in SeqsUpTo(RawCells, MaxRows)
  /\ list_idx = 0
  /\ list_files = <<>>
  /\ list_log = <<>>

\* the end of a pass whose cell is not empty: the lookup raised, or the row is
\* skipped for want of a title, or it is added to files
TakeRow(raw, found, net) ==
  IF found.asked /\ net = "error"
  THEN /\ pc' = "raised"
       /\ list_log' = Append(list_log, [raw |-> raw, kind |-> found.kind, asked |-> TRUE,
                                        title |-> <<>>, note |-> "raised"])
       /\ UNCHANGED << list_idx, list_files >>
  ELSE /\ list_idx' = list_idx + 1
       /\ list_log' = Append(list_log,
            [raw |-> raw, kind |-> found.kind, asked |-> found.asked, title |-> found.title,
             note |-> IF found.title = <<>> THEN "skipping" ELSE "planned"])
       /\ list_files' = IF found.title = <<>> THEN list_files
                        ELSE PlanAdd(list_files, found, LIST_SOURCE_TAG)
       /\ UNCHANGED pc

\* a pass over the cell raw, already stripped
PassOver(raw) ==
  IF raw = <<>>
  THEN /\ list_log' = Append(list_log, [raw |-> raw, kind |-> "Empty", asked |-> FALSE,
                                        title |-> <<>>, note |-> "skipping"])
       /\ list_idx' = list_idx + 1
       /\ UNCHANGED << pc, list_files >>
  ELSE \E net \in LookupOutcomes : TakeRow(raw, ResolveRaw(raw, net), net)

\* one pass of the loop of plan_from_list; a failing lookup raises out of the
\* function, and main does not catch it
ResolveRow ==
  /\ pc = "resolve"
  /\ list_idx < Len(list_rows)
  /\ PassOver(Strip(list_rows[list_idx + 1], { " " }))
  /\ UNCHANGED list_rows
  /\ UNCHANGED << harvestVars, selectVars, sanitizeVars, downloadVars, fetchVars, mainVars >>

\* the loop ends: return files
ListReturn ==
  /\ pc = "resolve"
  /\ list_idx >= Len(list_rows)
  /\ pc' = "resolved"
  /\ UNCHANGED << listVars, harvestVars, selectVars, sanitizeVars, downloadVars, fetchVars, mainVars >>

(***************************************************************************)
(* fetch_category_members                                                  *)
(***************************************************************************)
\* most pages the provider splits one category into
MaxPages == 3

\* the members one page can carry: none, one or two, in the provider's order
PageChoices == { <<>>, << "m1" >>, << "m2" >>, << "m1", "m2" >>, << "m3", "m1" >> }

\* the page a request asks for: the one its continuation token names, the
\* first when it carries none
PageAsked(params) == IF params = None THEN 1 ELSE params[1]

\* the provider's answer to a request: the members of the page asked for, and
\* the token of the page after it while there is one
Respond(pages, params) ==
  [ members |-> pages[PageAsked(params)],
    continue |-> IF PageAsked(params) < Len(pages) THEN Some(PageAsked(params) + 1)
                 ELSE None ]

\* the mutant of ParamsUpdate that never passes the continuation on
ParamsKept(params, cont) == params

\* if cont: params.update(cont)
ParamsUpdate(params, cont) == IF cont # None THEN cont ELSE params

\* out.extend(members); cont = data.get("continue"); if not cont: break
TakeResponse(params, data) ==
  /\ fetch_params' = params
  /\ fetch_out' = fetch_out \o data.members
  /\ fetch_cont' = data.continue
  /\ fetch_log' = Append(fetch_log, [sent |-> params, members |-> data.members,
                                     continue |-> data.continue])
  /\ pc' = IF data.continue = None THEN "fetch_break" ELSE "fetch"

SendRequest(params) == TakeResponse(params, Respond(fetch_pages, params))

\* the call: out = [], cont = None, params without continuation keys
FetchStart ==
  /\ pc = "fetch"
  /\ fetch_pages \in SeqsUpTo(PageChoices, MaxPages) \ { <<>> }
  /\ fetch_params = None
  /\ fetch_out = <<>>
  /\ fetch_cont = None
  /\ fetch_log = <<>>

\* one pass of the while loop whose response is read
FetchPage ==
  /\ pc = "fetch"
  /\ SendRequest(ParamsUpdate(fetch_params, fetch_cont))
  /\ UNCHANGED fetch_pages
  /\ UNCHANGED << harvestVars, selectVars, sanitizeVars, downloadVars, listVars, mainVars >>

\* one pass of the while loop whose request fails: raise_for_status or the
\* RuntimeError for a body that is not JSON leaves the function
FetchRaise ==
  /\ pc = "fetch"
  /\ pc' = "fetch_raised"
  /\ fetch_params' = ParamsUpdate(fetch_params, fetch_cont)
  /\ UNCHANGED << fetch_pages, fetch_out, fetch_cont, fetch_log >>
  /\ UNCHANGED << harvestVars, selectVars, sanitizeVars, downloadVars, listVars, mainVars >>

\* return out
FetchReturn ==
  /\ pc = "fetch_break"
  /\ pc' = "fetched"
  /\ UNCHANGED << fetchVars, harvestVars, selectVars, sanitizeVars, downloadVars, listVars, mainVars >>

(***************************************************************************)
(* main                                                                    *)
(***************************************************************************)
ModeCategories == << "c", "a", "t", "e", "g", "o", "r", "i", "e", "s" >>
ModeList == << "l", "i", "s", "t" >>
\* the values of MODE tried: the two modes, one of them capitalised, and a
\* value that names neither
ModeValues == { ModeCategories, << "L", "i", "s", "t" >>, << "a", "l", "l" >> }

\* the largest bound of the global slice tried in main
MaxSliceBound == 2
SliceBounds == { None } \cup { Some(n) : n \in 1..MaxSliceBound }

\* most files one root's traversal returns to main
MaxPlanned == 2

\* the bucket the traversal found a title in: TitleMango in a subcategory,
\* the others directly in the root
PathFound(title) == IF title = TitleMango THEN << << "S", "u", "b" >> >> ELSE <<>>

\* a record object as harvest_files_with_depth builds it, its path_segments a
\* list object of its own
AllocMeta(h, root, title) ==
  [ metas |-> Append(h.metas, [ title |-> title,
                                mid |-> MidOf(PageId(title)),
                                source_category |-> CategoryPrefix \o root,
                                path_segments |-> Len(h.lists) + 1 ]),
    lists |-> Append(h.lists, PathFound(title)) ]

RECURSIVE AllocMetas(_, _, _)
AllocMetas(h, root, titles) ==
  IF titles = <<>> THEN h
  ELSE AllocMetas(AllocMeta(h, root, Head(titles)), root, Tail(titles))

\* files_unique as returned for a root: title -> reference to its record
FilesUniqueAt(base, titles) ==
  [i \in 1..Len(titles) |-> [title |-> titles[i], ref |-> base + i]]

\* the adjustment that shares the path list with the traversal's record and
\* prefixes the root into it
AdjustInPlace(h, root, ref) ==
  [ metas |-> Append(h.metas, h.metas[ref]),
    lists |-> [h.lists EXCEPT ![h.metas[ref].path_segments] = << root >> \o @] ]

\* {**m, "path_segments": [root] + m.get("path_segments", [])}: a new record
\* whose path_segments is a new list
Adjust(h, root, ref) ==
  [ metas |-> Append(h.metas, [h.metas[ref] EXCEPT !.path_segments = Len(h.lists) + 1]),
    lists |-> Append(h.lists, << root >> \o h.lists[h.metas[ref].path_segments]) ]

RECURSIVE AdjustAll(_, _, _)
AdjustAll(h, root, files_for_root) ==
  IF files_for_root = <<>> THEN h
  ELSE AdjustAll(Adjust(h, root, Head(files_for_root).ref), root, Tail(files_for_root))

\* adjusted: title -> reference to the new record, in the order of files_for_root
Adjusted(base, files_for_root) ==
  [i \in 1..Len(files_for_root) |-> [title |-> files_for_root[i].title, ref |-> base + i]]

\* selected_by_root.get(root, {})
SelectedGet(groups, root) ==
  IF \E i \in 1..Len(groups) : groups[i].root = root
  THEN groups[CHOOSE i \in 1..Len(groups) : groups[i].root = root].files
  ELSE <<>>

RECURSIVE TotalUnique(_)
TotalUnique(plan) ==
  IF plan = <<>> THEN 0 ELSE Len(Head(plan).files_unique) + TotalUnique(Tail(plan))

\* what perform_downloads does with the items of one call, in the order of
\* files.items(): each is fetched under the path its record holds, and logged
\* unless it is the one whose fetch fails
Processed(h, root, adjusted, failing) ==
  [i \in 1..Len(adjusted) |->
     [ kind |-> "fetch", root |-> root, title |-> adjusted[i].title, ref |-> adjusted[i].ref,
       path |-> h.lists[h.metas[adjusted[i].ref].path_segments],
       logged |-> i # failing ]]

\* the start of main with its configuration
MainStart ==
  /\ pc = "main"
  /\ MODE \in ModeValues
  /\ main_cfg \in [start : SliceBounds, end : SliceBounds,
                   order : { OrderTitle, OrderRootThenTitle }]
  /\ normalized_roots \in RootLists
  /\ grand_plan = <<>>
  /\ heap = [metas |-> <<>>, lists |-> <<>>]
  /\ selection = None
  /\ root_idx = 0
  /\ effects = <<>>

\* where main goes after the dispatch on MODE.lower()
Branch(mode) ==
  IF Lower(mode) = ModeCategories THEN "harvest_roots"
  ELSE IF Lower(mode) = ModeList THEN "list_mode"
  ELSE "main_done"

\* os.makedirs unless DRY_RUN, build_session, and the dispatch on MODE; an
\* unknown MODE is printed and main returns
MainSetup ==
  /\ pc = "main"
  /\ effects' = (IF ~DRY_RUN THEN << [kind |-> "makedirs"] >> ELSE <<>>)
                  \o (IF Branch(MODE) = "main_done"
                      THEN << [kind |-> "print_unknown_mode"] >> ELSE <<>>)
  /\ pc' = Branch(MODE)
  /\ UNCHANGED << MODE, main_cfg, normalized_roots, grand_plan, heap, selection, root_idx >>
  /\ UNCHANGED << harvestVars, selectVars, sanitizeVars, downloadVars, listVars, fetchVars >>

\* the records of a root's traversal enter the plan
PlanRoot(root, titles) ==
  /\ heap' = AllocMetas(heap, root, titles)
  /\ grand_plan' = Append(grand_plan, [root |-> root,
                                       files_unique |-> FilesUniqueAt(Len(heap.metas), titles)])
  /\ effects' = Append(effects, [kind |-> "listing", root |-> root])

\* one pass of "for root in normalized_roots": fetch_and_plan_categories
MainHarvestRoot ==
  /\ pc = "harvest_roots"
  /\ Len(grand_plan) < Len(normalized_roots)
  /\ \E titles \in InjSeqsUpTo(SelectTitles, MaxPlanned) :
       PlanRoot(normalized_roots[Len(grand_plan) + 1], titles)
  /\ UNCHANGED << pc, MODE, main_cfg, normalized_roots, selection, root_idx >>
  /\ UNCHANGED << harvestVars, selectVars, sanitizeVars, downloadVars, listVars, fetchVars >>

\* what build_global_selection returns, with the sliced pool it grouped
Selected(pool, sliced) ==
  [ sliced |-> sliced, selected_by_root |-> GroupByRoot(sliced),
    total_pool |-> Len(pool), selected_count |-> SumLens(GroupByRoot(sliced)) ]

SelectFrom(pool) == Selected(pool, SlicePool(pool, main_cfg.start, main_cfg.end))

\* after the harvest loop: return when nothing was found, else the summary,
\* build_global_selection and the confirmation prompt
MainSelect ==
  /\ pc = "harvest_roots"
  /\ Len(grand_plan) = Len(normalized_roots)
  /\ IF TotalUnique(grand_plan) = 0
     THEN /\ pc' = "main_done"
          /\ UNCHANGED << selection, effects >>
     ELSE /\ selection' = Some(SelectFrom(FlattenPool(grand_plan, normalized_roots,
                                                      main_cfg.order)))
          /\ \E answer \in { "y", "n" } :
               /\ pc' = IF answer = "y" THEN "download_roots" ELSE "main_done"
               /\ effects' = Append(effects, [kind |-> "confirm", answer |-> answer])
  /\ UNCHANGED << MODE, main_cfg, normalized_roots, grand_plan, heap, root_idx >>
  /\ UNCHANGED << harvestVars, selectVars, sanitizeVars, downloadVars, listVars, fetchVars >>

\* perform_downloads on the adjusted records of one root
DownloadAdjusted(root, files_for_root, failing) ==
  /\ heap' = AdjustAll(heap, root, files_for_root)
  /\ effects' = effects \o Processed(AdjustAll(heap, root, files_for_root), root,
                                     Adjusted(Len(heap.metas), files_for_root), failing)

DownloadRoot(root, files_for_root) ==
  IF files_for_root = <<>>
  THEN UNCHANGED << heap, effects >>
  ELSE \E failing \in 0..Len(files_for_root) : DownloadAdjusted(root, files_for_root, failing)

\* one pass of the download loop "for root in normalized_roots"
MainDownloadRoot ==
  /\ pc = "download_roots"
  /\ root_idx < Len(normalized_roots)
  /\ root_idx' = root_idx + 1
  /\ DownloadRoot(normalized_roots[root_idx + 1],
                  SelectedGet(selection[1].selected_by_root, normalized_roots[root_idx + 1]))
  /\ UNCHANGED << pc, MODE, main_cfg, normalized_roots, grand_plan, selection >>
  /\ UNCHANGED << harvestVars, selectVars, sanitizeVars, downloadVars, listVars, fetchVars >>

\* the end of the download loop: the closing message
MainFinish ==
  /\ pc = "download_roots"
  /\ root_idx >= Len(normalized_roots)
  /\ pc' = "main_done"
  /\ UNCHANGED << mainVars, harvestVars, selectVars, sanitizeVars, downloadVars, listVars,
                  fetchVars >>

\* the list branch: plan_from_list reads the list and resolves its rows, and
\* perform_downloads serves what it resolved
MainListMode ==
  /\ pc = "list_mode"
  /\ \E resolved \in BOOLEAN :
       effects' = effects \o << [kind |-> "plan_from_list"] >>
                    \o (IF resolved THEN << [kind |-> "perform_downloads"] >> ELSE <<>>)
  /\ pc' = "main_done"
  /\ UNCHANGED << MODE, main_cfg, normalized_roots, grand_plan, heap, selection, root_idx >>
  /\ UNCHANGED << harvestVars, selectVars, sanitizeVars, downloadVars, listVars, fetchVars >>

(***************************************************************************)
(* Specifications                                                          *)
(***************************************************************************)
vars == << pc, harvestVars, selectVars, sanitizeVars, downloadVars, listVars, fetchVars,
          mainVars >>

\* no traversal is under way
HarvestIdle ==
  /\ catalogue = [titles |-> {}, subs |-> {}]
  /\ FILE_EXTS = <<>>
  /\ root_category = <<>>
  /\ max_depth = 0
  /\ q = <<>>
  /\ seen_categories = {}
  /\ files_unique = <<>>
  /\ raw_membership = <<>>
  /\ visits = <<>>
  /\ summary = None

\* no selection is under way
SelectIdle ==
  /\ selectArgs = [grand_plan |-> <<>>, normalized_roots |-> <<>>,
                   start_1based |-> None, end_1based |-> None, order |-> OrderRootThenTitle]
  /\ selectResult = NoSelection

\* no file name is being made
SanitizeIdle ==
  /\ sanitizeArgs = <<>>
  /\ sanitizeResult = <<>>

\* no call of perform_downloads is under way
DownloadAtRest ==
  /\ OVERWRITE_EXISTING = FALSE
  /\ log_flush_rows = 0
  /\ files = <<>>
  /\ idx = 0
  /\ rows_buffer = <<>>
  /\ written = 0
  /\ disk = {}
  /\ folders = {}
  /\ sheet = None
  /\ served = <<>>
  /\ flushes = <<>>
  /\ runs = <<>>

\* no download is under way
DownloadIdle == DRY_RUN = FALSE /\ DownloadAtRest

\* no list is being resolved
ListIdle ==
  /\ list_rows = <<>>
  /\ list_idx = 0
  /\ list_files = <<>>
  /\ list_log = <<>>

\* no listing is being fetched
FetchIdle ==
  /\ fetch_pages = <<>>
  /\ fetch_params = None
  /\ fetch_out = <<>>
  /\ fetch_cont = None
  /\ fetch_log = <<>>

\* main is not running
MainIdle ==
  /\ MODE = ModeCategories
  /\ main_cfg = [start |-> None, end |-> None, order |-> OrderRootThenTitle]
  /\ normalized_roots = <<>>
  /\ grand_plan = <<>>
  /\ heap = [metas |-> <<>>, lists |-> <<>>]
  /\ selection = None
  /\ root_idx = 0
  /\ effects = <<>>

NextHarvest == HarvestStep \/ HarvestReturn \/ PlanSummary

\* the traversal over a catalogue rich in file titles
InitHarvest ==
  HarvestStart(PoolTitles, PoolSubcats) /\ SelectIdle /\ SanitizeIdle /\ DownloadIdle
    /\ ListIdle /\ FetchIdle /\ MainIdle
SpecHarvest == InitHarvest /\ [][NextHarvest]_vars

\* the traversal over a catalogue rich in subcategory links
InitTraverse ==
  HarvestStart(WalkTitles, WalkSubcats) /\ SelectIdle /\ SanitizeIdle /\ DownloadIdle
    /\ ListIdle /\ FetchIdle /\ MainIdle
SpecTraverse == InitTraverse /\ [][NextHarvest]_vars

NextSelect == BuildGlobalSelection

NextSanitize == SanitizeFilenameCall

\* sanitize_filename on raw names, folders, caps, budgets and MIDs
InitSanitize ==
  SanitizeStart /\ HarvestIdle /\ SelectIdle /\ DownloadIdle /\ ListIdle
    /\ FetchIdle /\ MainIdle
SpecSanitize == InitSanitize /\ [][NextSanitize]_vars

NextDownload == PerformItem \/ PerformReturn \/ RunAgain

\* the download pipeline, run up to MaxRuns times over one selection
InitDownload ==
  DownloadStart /\ HarvestIdle /\ SelectIdle /\ SanitizeIdle /\ ListIdle
    /\ FetchIdle /\ MainIdle
SpecDownload == InitDownload /\ [][NextDownload]_vars

NextList == ResolveRow \/ ListReturn

\* plan_from_list over the rows of a list
InitList ==
  ListStart /\ HarvestIdle /\ SelectIdle /\ SanitizeIdle /\ DownloadIdle
    /\ FetchIdle /\ MainIdle
SpecList == InitList /\ [][NextList]_vars

NextFetch == FetchPage \/ FetchRaise \/ FetchReturn

\* fetch_category_members against a provider holding up to MaxPages pages
InitFetch ==
  FetchStart /\ HarvestIdle /\ SelectIdle /\ SanitizeIdle /\ DownloadIdle /\ ListIdle
    /\ MainIdle
SpecFetch == InitFetch /\ [][NextFetch]_vars

NextMain ==
  MainSetup \/ MainHarvestRoot \/ MainSelect \/ MainDownloadRoot \/ MainFinish
    \/ MainListMode

\* main under every mode, slice and order tried, with and without DRY_RUN
InitMain ==
  MainStart /\ DRY_RUN \in BOOLEAN /\ DownloadAtRest /\ HarvestIdle /\ SelectIdle
    /\ SanitizeIdle /\ ListIdle /\ FetchIdle
SpecMain == InitMain /\ [][NextMain]_vars

\* build_global_selection on the pools of up to two roots
InitSelect ==
  SelectStart /\ HarvestIdle /\ SanitizeIdle /\ DownloadIdle /\ ListIdle
    /\ FetchIdle /\ MainIdle
SpecSelect == InitSelect /\ [][NextSelect]_vars

(***************************************************************************)
(* What the history of listing calls says                                  *)
(***************************************************************************)
\* the titles the k-th listing call returned
ItemsOf(k) == { visits[k].items[j] : j \in 1..Len(visits[k].items) }

\* every title some visited node's file listing returned
ListedTitles == UNION { ItemsOf(k) : k \in 1..Len(visits) }

\* the first node, in visitation order, whose file listing held the title
FirstListing(title) ==
  CHOOSE k \in 1..Len(visits) :
    title \in ItemsOf(k) /\ \A j \in 1..(k - 1) : title \notin ItemsOf(j)

\* the records of the pool whose path_segments are this path
PoolAt(path) == { i \in 1..Len(files_unique) : files_unique[i].path_segments = path }

\* the paths of the nodes visited so far
VisitedPaths == { visits[k].path : k \in 1..Len(visits) }

(***************************************************************************)
(* C1: each title is in the unique pool at most once, and the origin       *)
(* recorded for it (source_category, path_segments) is the first node, in  *)
(* BFS visitation order, whose file listing held the title; no later       *)
(* listing of the same title changes the record.                           *)
(***************************************************************************)
C1_FirstHitOrigin ==
  /\ \A i, j \in 1..Len(files_unique) :
       files_unique[i].title = files_unique[j].title => i = j
  /\ \A i \in 1..Len(files_unique) :
       LET m == files_unique[i]
       IN  /\ m.title \in ListedTitles
           /\ m.source_category = CategoryPrefix \o visits[FirstListing(m.title)].cat
           /\ m.path_segments = visits[FirstListing(m.title)].path

\* a pooled title that a second, later node listed again
C1_Witness ==
  \E i \in 1..Len(files_unique) :
    \E k \in 1..Len(visits) :
      /\ k > FirstListing(files_unique[i].title)
      /\ files_unique[i].title \in ItemsOf(k)

(***************************************************************************)
(* C2: for every path, the number of records of the unique pool whose      *)
(* path_segments are that path is at most raw_membership[path].            *)
(***************************************************************************)
C2_UniqueAtMostRaw ==
  \A path \in VisitedPaths \cup { files_unique[i].path_segments : i \in 1..Len(files_unique) } :
    Cardinality(PoolAt(path)) <= CounterGet(raw_membership, path)

\* a node below the root with a record of its own and a larger raw count
C2_Witness ==
  \E path \in VisitedPaths :
    /\ path # <<>>
    /\ Cardinality(PoolAt(path)) > 0
    /\ Cardinality(PoolAt(path)) < CounterGet(raw_membership, path)

(***************************************************************************)
(* C3, as claimed: when the traversal returns, the size of the unique pool *)
(* is the number of distinct titles across the file listings of all        *)
(* visited nodes.                                                          *)
(***************************************************************************)
C3_Claimed_PoolIsAllListedTitles ==
  pc = "harvested" => Len(files_unique) = Cardinality(ListedTitles)

(***************************************************************************)
(* C3, amended: when the traversal returns, the size of the unique pool is *)
(* the number of distinct listed titles that the traversal admits: those   *)
(* that start with "File:" and pass the FILE_EXTS test of the loop body.   *)
(* A title listed by several nodes is counted once.                        *)
(***************************************************************************)
C3_PoolIsAdmittedListedTitles ==
  pc = "harvested" =>
    /\ Len(files_unique) =
         Cardinality({ t \in ListedTitles : PassesFilter(t, FILE_EXTS) })
    /\ { files_unique[i].title : i \in 1..Len(files_unique) } =
         { t \in ListedTitles : PassesFilter(t, FILE_EXTS) }

\* a finished traversal in which two nodes listed the same admitted title and
\* some listed title was not admitted
C3_Witness ==
  /\ pc = "harvested"
  /\ C1_Witness
  /\ \E t \in ListedTitles : ~PassesFilter(t, FILE_EXTS)

(***************************************************************************)
(* C4, as claimed: with a non-empty FILE_EXTS every title of the unique    *)
(* pool ends, case-insensitively, with one of its extensions; with an      *)
(* empty FILE_EXTS every listed "File:" title is admitted.                 *)
(***************************************************************************)
C4_Claimed_PoolTitlesEndWithExt ==
  /\ FILE_EXTS # <<>> =>
       \A i \in 1..Len(files_unique) :
         EndsWithAny(Lower(files_unique[i].title), FILE_EXTS)
  /\ FILE_EXTS = <<>> =>
       \A t \in ListedTitles :
         StartsWith(t, FilePrefix) => HasTitle(files_unique, t)

(***************************************************************************)
(* The category graph the listings describe.  The catalogue treats "_" and *)
(* " " in a title alike, so a page is named by its title with spaces.      *)
(***************************************************************************)
PageOf(title) == Replace(title, << "_" >>, << " " >>)

\* the page the k-th visit asked the catalogue about: cmtitle = "Category:" + cat
VisitedPage(k) == PageOf(CategoryPrefix \o visits[k].cat)

HarvestedPages == { VisitedPage(k) : k \in 1..Len(visits) }

\* the subcategory pages the listings named for a page
ChildrenOf(page) ==
  UNION { { PageOf(visits[k].subs[j]) : j \in 1..Len(visits[k].subs) } :
          k \in { n \in 1..Len(visits) : VisitedPage(n) = page } }

\* the pages within n subcategory steps of the root
RECURSIVE ReachWithin(_)
ReachWithin(n) ==
  IF n = 0 THEN { PageOf(CategoryPrefix \o root_category) }
  ELSE LET near == ReachWithin(n - 1)
       IN  near \cup UNION { ChildrenOf(p) : p \in near }

(***************************************************************************)
(* C5, as claimed: every harvested node has depth <= max_depth; the        *)
(* subcategories are listed exactly for the nodes of depth < max_depth;    *)
(* with max_depth = 0 only the root is harvested and no subcategory        *)
(* listing is requested; and when the traversal returns every category     *)
(* within max_depth subcategory steps of the root has been harvested.      *)
(***************************************************************************)
C5_DepthBound ==
  /\ \A k \in 1..Len(visits) :
       /\ visits[k].d <= max_depth
       /\ visits[k].expanded <=> visits[k].d < max_depth
  /\ max_depth = 0 =>
       \A k \in 1..Len(visits) :
         /\ visits[k].cat = root_category
         /\ visits[k].path = <<>>
         /\ ~visits[k].expanded
         /\ k = 1

C5_Claimed_DepthSemantics ==
  /\ C5_DepthBound
  /\ pc = "harvested" => ReachWithin(max_depth) \subseteq HarvestedPages

(***************************************************************************)
(* What a finished selection holds                                         *)
(***************************************************************************)
\* the flattened pre-slice sequence
FlatPool == selectResult.pool

\* how often the pair (root, title) occurs in the flattened sequence
Occurrences(root, title) ==
  Cardinality({ i \in 1..Len(FlatPool) :
                  FlatPool[i].root = root /\ FlatPool[i].title = title })

\* the flattened sequence holds each record of each root's pool exactly once,
\* under its root and title, and nothing else
HoldsEveryPairOnce ==
  LET plan == selectArgs.grand_plan
  IN  /\ \A r \in 1..Len(plan) : \A k \in 1..Len(plan[r].files_unique) :
           /\ Occurrences(plan[r].root, plan[r].files_unique[k].title) = 1
           /\ \E i \in 1..Len(FlatPool) :
                /\ FlatPool[i].root = plan[r].root
                /\ FlatPool[i].meta = plan[r].files_unique[k]
                /\ FlatPool[i].title = plan[r].files_unique[k].title
      /\ \A i \in 1..Len(FlatPool) :
           \E r \in 1..Len(plan) : \E k \in 1..Len(plan[r].files_unique) :
             FlatPool[i].root = plan[r].root /\ FlatPool[i].meta = plan[r].files_unique[k]

\* the position of a root in the caller's list
RootIndex(root) ==
  CHOOSE i \in 1..Len(selectArgs.normalized_roots) : selectArgs.normalized_roots[i] = root

\* the titles of a sequence of pool entries
TitlesOf(entries) == [i \in 1..Len(entries) |-> entries[i].title]

(***************************************************************************)
(* C6: with order "title" the flattened pre-slice sequence holds every     *)
(* (root, title) pair of every root's pool exactly once and is sorted by   *)
(* the lower-cased title alone.                                            *)
(***************************************************************************)
C6_TitleOrder ==
  (pc = "selected" /\ selectArgs.order = OrderTitle) =>
    /\ HoldsEveryPairOnce
    /\ \A i, j \in 1..Len(FlatPool) :
         i < j => ~StrLess(Lower(FlatPool[j].title), Lower(FlatPool[i].title))

\* the pool [Zebra, apple, Mango] of one root comes out as [apple, Mango, Zebra]
C6_Witness ==
  /\ pc = "selected"
  /\ selectArgs.order = OrderTitle
  /\ Len(selectArgs.grand_plan) = 1
  /\ TitlesOf(selectArgs.grand_plan[1].files_unique) = << TitleZebra, TitleApple, TitleMango >>
  /\ TitlesOf(FlatPool) = << TitleApple, TitleMango, TitleZebra >>

(***************************************************************************)
(* C7: with order "root_then_title" the flattened pre-slice sequence walks *)
(* the roots in the order of normalized_roots, never re-sorted, holds      *)
(* every (root, title) pair exactly once, and lists each root's titles in  *)
(* lower-cased order.                                                      *)
(***************************************************************************)
C7_RootThenTitleOrder ==
  (pc = "selected" /\ selectArgs.order = OrderRootThenTitle) =>
    /\ HoldsEveryPairOnce
    /\ \A i, j \in 1..Len(FlatPool) :
         i < j =>
           /\ RootIndex(FlatPool[i].root) <= RootIndex(FlatPool[j].root)
           /\ FlatPool[i].root = FlatPool[j].root =>
                ~StrLess(Lower(FlatPool[j].title), Lower(FlatPool[i].title))

\* roots [S, A_B], not in alphabetical order, with pools [Mango, apple] and
\* [Zebra]: the flattened order is [S:apple, S:Mango, A_B:Zebra] and the slice
\* start=2, end=3 is [S:Mango, A_B:Zebra]
C7_Witness ==
  /\ pc = "selected"
  /\ selectArgs.order = OrderRootThenTitle
  /\ selectArgs.normalized_roots = << NormalizedRoots[2], NormalizedRoots[1] >>
  /\ TitlesOf(selectArgs.grand_plan[1].files_unique) = << TitleMango, TitleApple >>
  /\ TitlesOf(selectArgs.grand_plan[2].files_unique) = << TitleZebra >>
  /\ selectArgs.start_1based = Some(2)
  /\ selectArgs.end_1based = Some(3)
  /\ [i \in 1..Len(FlatPool) |-> << FlatPool[i].root, FlatPool[i].title >>] =
       << << NormalizedRoots[2], TitleApple >>, << NormalizedRoots[2], TitleMango >>,
          << NormalizedRoots[1], TitleZebra >> >>
  /\ [i \in 1..Len(selectResult.sliced) |->
        << selectResult.sliced[i].root, selectResult.sliced[i].title >>] =
       << << NormalizedRoots[2], TitleMango >>, << NormalizedRoots[1], TitleZebra >> >>

(***************************************************************************)
(* C8: the selection is the entries of the flattened sequence, of size P,  *)
(* at the 1-based positions start..min(end, P), where an absent start is 1 *)
(* and an absent end is P; a start beyond P selects nothing; the grouped   *)
(* selection holds exactly these entries, and total_pool is P.             *)
(***************************************************************************)
C8_SliceBounds ==
  pc = "selected" =>
    LET P == Len(FlatPool)
        first == IF selectArgs.start_1based = None THEN 1
                 ELSE Max(1, selectArgs.start_1based[1])
        last == IF selectArgs.end_1based = None THEN P
                ELSE Min(selectArgs.end_1based[1], P)
        chosen == { i \in 1..P : first <= i /\ i <= last }
        groups == selectResult.selected_by_root
    IN  /\ selectResult.total_pool = P
        /\ Len(selectResult.sliced) = Cardinality(chosen)
        /\ \A k \in 1..Len(selectResult.sliced) :
             selectResult.sliced[k] = FlatPool[first + k - 1]
        /\ selectResult.selected_count = Cardinality(chosen)
        /\ \A i \in chosen :
             \E g \in 1..Len(groups) : \E k \in 1..Len(groups[g].files) :
               groups[g].root = FlatPool[i].root /\ groups[g].files[k] = FlatPool[i].meta
        /\ \A g \in 1..Len(groups) : \A k \in 1..Len(groups[g].files) :
             \E i \in chosen :
               groups[g].root = FlatPool[i].root /\ groups[g].files[k] = FlatPool[i].meta

\* start=2, end=2 on a pool of three selects the second entry and no other
C8_Witness ==
  /\ pc = "selected"
  /\ Len(FlatPool) = 3
  /\ selectArgs.start_1based = Some(2)
  /\ selectArgs.end_1based = Some(2)
  /\ selectResult.sliced = << FlatPool[2] >>
  /\ selectResult.selected_count = 1

\* a start beyond the pool selects nothing
C8_WitnessBeyond ==
  /\ pc = "selected"
  /\ Len(FlatPool) = 3
  /\ selectArgs.start_1based = Some(4)
  /\ selectResult.selected_count = 0

C11_StemSuffixExt ==
  pc = "sanitized" =>
    LET parts == SplitExt(CleanName(sanitizeArgs.filename))
        mid == sanitizeArgs.mid
        given == mid # None /\ \E i \in 1..Len(mid[1]) : mid[1][i] # " "
        suffix == IF given
                  THEN << "-", "-" >> \o Strip(mid[1], { " " })
                  ELSE << "-", "-", "N", "O", "-", "M", "I", "D", "-" >>
                         \o ShortHash(sanitizeArgs.filename)
    IN  \E k \in 0..Len(parts.stem) : \E mark \in { <<>>, << "_" >> } :
          /\ sanitizeResult.safe_name =
               SubSeq(parts.stem, 1, k) \o mark \o suffix \o parts.ext
          /\ parts.stem # <<>> => k >= 1
          /\ mark # <<>> => Lower(Strip(SubSeq(parts.stem, 1, k), { ".", " " })) \in ReservedNames

\* a name whose extension and suffix alone exceed the cap: the stem is cut to
\* one character and the long extension is kept whole
C11_Witness ==
  /\ pc = "sanitized"
  /\ sanitizeArgs.filename = << "a", "." >> \o Rep("x", LongStem)
  /\ sanitizeArgs.folder = None
  /\ sanitizeArgs.max_length = SmallMaxLength
  /\ sanitizeArgs.mid = Some(<< "M", "1", "5" >>)
  /\ sanitizeResult.safe_name =
       << "a", "-", "-", "M", "1", "5", "." >> \o Rep("x", LongStem)

(***************************************************************************)
(* What one call of perform_downloads has done so far                      *)
(***************************************************************************)
RECURSIVE ConcatBatches(_)
ConcatBatches(batches) ==
  IF batches = <<>> THEN <<>> ELSE Head(batches) \o ConcatBatches(Tail(batches))

\* the rows this call has built: those handed to the log, then those buffered
RowsOfCall == ConcatBatches(flushes) \o rows_buffer

\* the items of this call that were processed without an error, in order
Succeeded == SelectSeq(served, LAMBDA e : e.verb # "ERROR")

\* the rows of this call that carry the title
RowsFor(title) == { i \in 1..Len(RowsOfCall) : RowsOfCall[i].CommonsFileName = title }

(***************************************************************************)
(* C12: in perform_downloads an item whose fetch raises is skipped: no row *)
(* is built for it, the loop goes on with the next item, every item of the *)
(* selection has been taken when the call returns, and the count returned  *)
(* is the number of items that did not fail.                               *)
(***************************************************************************)
C12_FailureSkipsOneItem ==
  pc \in { "download", "downloaded" } =>
    /\ Len(served) = idx
    /\ \A k \in 1..Len(served) : served[k].title = files[k].title
    /\ pc = "downloaded" => Len(served) = Len(files)
    /\ \A k \in 1..Len(served) :
         IF served[k].verb = "ERROR" THEN RowsFor(served[k].title) = {}
         ELSE Cardinality(RowsFor(served[k].title)) = 1
    /\ written = Len(Succeeded)

\* a call that returned after its first item failed and its second was saved
C12_Witness ==
  /\ pc = "downloaded"
  /\ ~DRY_RUN
  /\ Len(served) >= 2
  /\ served[1].verb = "ERROR"
  /\ served[2].verb = "saved as"
  /\ written >= 1

(***************************************************************************)
(* C13: in a non-dry call with flush size N >= 1, between two items the    *)
(* buffer holds at most N-1 rows; every batch handed to the log before the *)
(* end of the loop holds exactly N rows and the final one at most N; the   *)
(* batches and the buffer together hold the rows of the successful items,  *)
(* each once and in order; and the buffer is empty when the call returns.  *)
(***************************************************************************)
C13_FlushCadence ==
  (pc \in { "download", "downloaded" } /\ ~DRY_RUN /\ log_flush_rows >= 1) =>
    /\ Len(rows_buffer) <= log_flush_rows - 1
    /\ \A b \in 1..Len(flushes) :
         /\ Len(flushes[b]) >= 1
         /\ Len(flushes[b]) <= log_flush_rows
         /\ (b < Len(flushes) \/ pc = "download") => Len(flushes[b]) = log_flush_rows
    /\ [i \in 1..Len(RowsOfCall) |-> RowsOfCall[i].CommonsFileName] =
         [i \in 1..Len(Succeeded) |-> Succeeded[i].title]
    /\ pc = "downloaded" => rows_buffer = <<>>

\* three successes with N = 2: one full batch, then the remainder of one row
C13_Witness ==
  /\ pc = "downloaded"
  /\ ~DRY_RUN
  /\ log_flush_rows = 2
  /\ written = 3
  /\ Len(flushes) = 2
  /\ Len(flushes[1]) = 2
  /\ Len(flushes[2]) = 1

(***************************************************************************)
(* C14: in dry-run mode no folder is created, no file is written and no    *)
(* batch reaches the log; every item taken has its upload URL asked from   *)
(* the lookup and no bytes fetched; and an item whose lookup answers is    *)
(* reported as "would save as" and counted.                                *)
(***************************************************************************)
C14_DryRunTouchesNothing ==
  (pc \in { "download", "downloaded" } /\ DRY_RUN) =>
    /\ folders = {}
    /\ disk = {}
    /\ sheet = None
    /\ flushes = <<>>
    /\ \A k \in 1..Len(served) :
         /\ served[k].looked_up
         /\ ~served[k].transferred
         /\ ~served[k].wrote
         /\ served[k].verb \in { "would save as", "ERROR" }
    /\ written = Len(Succeeded)

\* a dry run that reported all three items
C14_Witness ==
  /\ pc = "downloaded"
  /\ DRY_RUN
  /\ Len(files) = 3
  /\ written = 3
  /\ \A k \in 1..3 : served[k].verb = "would save as" /\ served[k].resolved_url # <<>>

(***************************************************************************)
(* C15: with overwrite off and the safe name already in the target folder, *)
(* download_file fetches no bytes and writes no file but asks the lookup   *)
(* for the upload URL; if the lookup answers, perform_downloads builds the *)
(* row of the item, with the stored name and the URL the lookup gave, and  *)
(* counts the item.                                                        *)
(***************************************************************************)
C15_ExistingFileIsLoggedNotFetched ==
  (pc \in { "download", "downloaded" } /\ ~DRY_RUN /\ ~OVERWRITE_EXISTING) =>
    /\ \A k \in 1..Len(served) :
         served[k].existed =>
           /\ ~served[k].transferred
           /\ ~served[k].wrote
           /\ served[k].looked_up
           /\ served[k].verb # "ERROR" =>
                \E i \in RowsFor(served[k].title) :
                  /\ RowsOfCall[i].LocalFilename = served[k].stored_name
                  /\ RowsOfCall[i].CommonsImageURL = served[k].resolved_url
                  /\ RowsOfCall[i].CommonsFileURL = WikiUrlPrefix \o served[k].title
                  /\ RowsOfCall[i].MediaInfoID = files[k].mid
    /\ written = Len(Succeeded)

\* the second run finds the file of its first item on disk and logs it
C15_Witness ==
  /\ pc = "downloaded"
  /\ ~DRY_RUN
  /\ ~OVERWRITE_EXISTING
  /\ Len(runs) = 2
  /\ Len(served) >= 1
  /\ served[1].existed
  /\ served[1].verb = "saved as"
  /\ served[1].resolved_url = UploadUrlPrefix \o Replace(served[1].title, FilePrefix, <<>>)

(***************************************************************************)
(* C16, as claimed: no two rows of the log sheet carry the same pair       *)
(* (CommonsFileURL, MediaInfoID).                                          *)
(***************************************************************************)
C16_Claimed_NoDuplicateKeys ==
  sheet # None =>
    \A i, j \in 1..Len(sheet[1]) :
      DedupeKey(sheet[1][i]) = DedupeKey(sheet[1][j]) => i = j

(***************************************************************************)
(* C17, as claimed: when the pipeline has run twice over the selection     *)
(* with overwrite off, every item processed in both runs, the second run   *)
(* has added no row to the sheet.                                          *)
(***************************************************************************)
C17_Claimed_SecondRunAddsNoRow ==
  (pc = "downloaded" /\ ~DRY_RUN /\ ~OVERWRITE_EXISTING /\ Len(runs) = 2
     /\ runs[1].written = Len(files) /\ runs[2].written = Len(files) /\ files # <<>>) =>
    Len(runs[2].after[1]) = Len(runs[1].after[1])

(***************************************************************************)
(* C18, as claimed: a flush onto an existing sheet keeps every stored row, *)
(* unchanged and in order, and adds behind them the rows of the batch      *)
(* whose key no stored row carries; a row of the batch whose key is stored *)
(* already is discarded.                                                   *)
(***************************************************************************)
FreshRows(stored, batch) ==
  SelectSeq(ToExcel(batch),
            LAMBDA r : \A i \in 1..Len(stored) : DedupeKey(stored[i]) # DedupeKey(r))

C18_Claimed_AppendOnly ==
  [][ (sheet # None /\ Len(flushes') = Len(flushes) + 1) =>
        sheet' = Some(sheet[1] \o FreshRows(sheet[1], flushes'[Len(flushes')])) ]_vars

\* C19: in list resolution a cell of any kind that names no known title or ID
\* resolves to an empty title, is logged as skipped and is not added to the
\* plan, and the rows after it are still taken.
C19_Claimed_UnmatchedRowSkipped ==
  /\ \A k \in 1..Len(list_log) :
       (/\ list_log[k].raw # <<>>
        /\ ~NamesKnownPage(list_log[k].raw)
        /\ list_log[k].note # "raised")
         => /\ list_log[k].title = <<>>
            /\ list_log[k].note = "skipping"
  /\ \A i \in 1..Len(list_files) :
       \E k \in 1..Len(list_log) :
         NamesKnownPage(list_log[k].raw) /\ list_log[k].title = list_files[i].title
  /\ pc = "resolved" => Len(list_log) = Len(list_rows)

\* C20: a lookup that still fails after the retries fails only its own row:
\* list resolution never ends on the raised error, and when it ends every row
\* of the list has been taken.
C20_Claimed_FailedLookupSkipsRow ==
  /\ pc # "raised"
  /\ \A k \in 1..Len(list_log) : list_log[k].note = "raised" => list_idx >= k
  /\ pc = "resolved" => Len(list_log) = Len(list_rows)

(***************************************************************************)
(* C23, as claimed: within one traversal no category is listed more than   *)
(* once and none is queued twice or queued after it was listed: a          *)
(* subcategory that links back to an ancestor, the root included, is not   *)
(* enqueued again.                                                         *)
(***************************************************************************)
QueuedPage(i) == PageOf(CategoryPrefix \o q[i].cat)

C23_Claimed_NoNodeVisitedTwice ==
  /\ \A k, l \in 1..Len(visits) : VisitedPage(k) = VisitedPage(l) => k = l
  /\ \A i, j \in 1..Len(q) : QueuedPage(i) = QueuedPage(j) => i = j
  /\ \A i \in 1..Len(q) : pc = "harvested" \/ QueuedPage(i) \notin
       { VisitedPage(k) : k \in 1..Len(visits) }

(***************************************************************************)
(* C24: a listed member whose title lacks the "File:" prefix never enters  *)
(* the unique pool, yet it is counted: every visited node has a path of    *)
(* its own, and raw_membership[path] is the length of the file listing     *)
(* returned for that node, whatever the prefix, extension or repetition of *)
(* its entries; raw_membership has no other key.                           *)
(***************************************************************************)
C24_RawCountsEveryEntry ==
  /\ \A i \in 1..Len(files_unique) : StartsWith(files_unique[i].title, FilePrefix)
  /\ \A k, l \in 1..Len(visits) : visits[k].path = visits[l].path => k = l
  /\ \A k \in 1..Len(visits) :
       CounterGet(raw_membership, visits[k].path) = Len(visits[k].items)
  /\ DOMAIN raw_membership = VisitedPaths

C24_Witness ==
  /\ pc = "harvested"
  /\ \E k \in 1..Len(visits) :
       /\ visits[k].items = << TitleBare, TitleBare >>
       /\ visits[k].path # <<>>
       /\ raw_membership[visits[k].path] = 2
       /\ PoolAt(visits[k].path) = {}

(***************************************************************************)
(* C30, as claimed: the traversal returns, and when it does the number of  *)
(* nodes it has listed is at most the number of distinct categories within *)
(* max_depth subcategory steps of the root.                                *)
(***************************************************************************)
C30_Claimed_ListsAtMostReachable ==
  pc = "harvested" => Len(visits) <= Cardinality(ReachWithin(max_depth))

\* the traversal under the assumption that every listing call returns
SpecTraverseFair == SpecTraverse /\ WF_vars(NextHarvest)

\* the queue eventually empties and the traversal returns
C30_Terminates == <>(pc = "harvested")

HoldsIdSegment(s) ==
  \E i \in MidStarts(s) :
    LET after == i + 1 + Len(DigitRun(SubSeq(s, i + 1, Len(s))))
    IN  after > Len(s) \/ s[after] \in { "/", "?", "&", "#" }

C29_Claimed_Classification ==
  \A k \in 1..Len(list_log) :
    list_log[k].raw # <<>> =>
      /\ list_log[k].asked
      /\ list_log[k].kind = "MID" <=> HoldsIdSegment(list_log[k].raw)
      /\ list_log[k].kind = "ImageURL" <=>
           (~HoldsIdSegment(list_log[k].raw) /\ IsUploadUrl(list_log[k].raw))
      /\ list_log[k].kind = "FileURL" <=>
           (/\ ~HoldsIdSegment(list_log[k].raw)
            /\ ~IsUploadUrl(list_log[k].raw)
            /\ ParseTitleFromCommonsUrl(list_log[k].raw) # <<>>)

\* the part of C29 that does not involve the ID pattern: a cell the ID regex
\* does not match goes to the upload branch, the page branch or the name
\* branch, in this order
C29_PrecedenceAfterId ==
  \A k \in 1..Len(list_log) :
    (list_log[k].raw # <<>> /\ list_log[k].kind # "MID") =>
      /\ list_log[k].kind = "ImageURL" <=> IsUploadUrl(list_log[k].raw)
      /\ list_log[k].kind = "FileName" <=>
           ~StartsWith(Lower(list_log[k].raw), << "h", "t", "t", "p" >>)

(***************************************************************************)
(* C22, as claimed: an item whose bytes arrive but cannot be written to    *)
(* the local file is reported and still gets its row in the log, with an   *)
(* empty LocalFilename.                                                    *)
(***************************************************************************)
C22_Claimed_WriteFailureKeepsRow ==
  \A k \in 1..Len(served) :
    served[k].write_failed =>
      \E i \in RowsFor(served[k].title) : RowsOfCall[i].LocalFilename = <<>>

(***************************************************************************)
(* What the history of requests says                                       *)
(***************************************************************************)
RECURSIVE ConcatMembers(_)
ConcatMembers(log) ==
  IF log = <<>> THEN <<>>
  ELSE ConcatMembers(SubSeq(log, 1, Len(log) - 1)) \o log[Len(log)].members

RECURSIVE ConcatPages(_)
ConcatPages(pages) ==
  IF pages = <<>> THEN <<>>
  ELSE ConcatPages(SubSeq(pages, 1, Len(pages) - 1)) \o pages[Len(pages)]

\* C25: fetch_category_members sends its first request without a token and
\* every later request with the token of the response before it; a response
\* that carries a continuation is always followed by another request before
\* the function returns, whatever its page holds; the function returns only
\* after a response without continuation, and what it has gathered is at every
\* moment the concatenation, in order, of the members of the pages received,
\* which at the return are all the pages the provider holds.
C25_FollowsContinuation ==
  /\ \A k \in 1..Len(fetch_log) :
       /\ fetch_log[k].sent = (IF k = 1 THEN None ELSE fetch_log[k - 1].continue)
       /\ k < Len(fetch_log) => fetch_log[k].continue # None
  /\ fetch_out = ConcatMembers(fetch_log)
  /\ pc \in { "fetch_break", "fetched" } =>
       /\ fetch_log # <<>>
       /\ fetch_log[Len(fetch_log)].continue = None
       /\ Len(fetch_log) = Len(fetch_pages)
       /\ fetch_out = ConcatPages(fetch_pages)
  /\ (fetch_log # <<>> /\ fetch_log[Len(fetch_log)].continue # None) =>
       pc \in { "fetch", "fetch_raised" }

\* a return after three pages of which an earlier one was empty
C25_Witness ==
  /\ pc = "fetched"
  /\ Len(fetch_log) = MaxPages
  /\ \E k \in 1..(Len(fetch_log) - 1) :
       fetch_log[k].members = <<>> /\ fetch_log[k].continue # None
  /\ fetch_out # <<>>

(***************************************************************************)
(* What the steps of main say                                              *)
(***************************************************************************)
\* the configuration errors of a categories run: a MODE that names no mode, or
\* a global slice whose end is less than its start
UnknownMode == Branch(MODE) = "main_done"
InvalidRange ==
  /\ Branch(MODE) = "harvest_roots"
  /\ main_cfg.start # None
  /\ main_cfg.end # None
  /\ main_cfg.end[1] < main_cfg.start[1]

\* the items perform_downloads has taken so far, in order
Fetches == SelectSeq(effects, LAMBDA e : e.kind = "fetch")

\* C21 (as claimed): under an unknown MODE or a global range with end < start,
\* no folder is created, no listing or list is read and nothing is fetched, no
\* selection is produced, and main ends with an error raised.
C21_Claimed_ConfigErrorRaisedFirst ==
  (UnknownMode \/ InvalidRange) =>
    /\ \A k \in 1..Len(effects) :
         effects[k].kind \notin { "makedirs", "listing", "fetch" }
    /\ selection = None
    /\ pc = "main_done" => \E k \in 1..Len(effects) : effects[k].kind = "raise"

\* C26 (as claimed): the items the download loop takes are, in order, the
\* items of the sliced flattened sequence build_global_selection grouped.
C26_Claimed_SliceOrderKept ==
  selection # None =>
    /\ Len(Fetches) <= Len(selection[1].sliced)
    /\ \A k \in 1..Len(Fetches) :
         /\ Fetches[k].root = selection[1].sliced[k].root
         /\ Fetches[k].title = selection[1].sliced[k].title

\* C28: at every moment of main, selection and download phase included, each
\* record of each root's unique pool holds the title, the origin and the
\* path_segments the traversal gave it; each item perform_downloads takes is
\* another record with another path list, which holds the root followed by
\* the traversal's path.
C28_PlanRecordsUntouched ==
  /\ \A i \in 1..Len(grand_plan) : \A j \in 1..Len(grand_plan[i].files_unique) :
       /\ heap.metas[grand_plan[i].files_unique[j].ref].title
            = grand_plan[i].files_unique[j].title
       /\ heap.metas[grand_plan[i].files_unique[j].ref].source_category
            = CategoryPrefix \o grand_plan[i].root
       /\ heap.lists[heap.metas[grand_plan[i].files_unique[j].ref].path_segments]
            = PathFound(grand_plan[i].files_unique[j].title)
  /\ \A k \in 1..Len(Fetches) :
       /\ \A i \in 1..Len(grand_plan) : \A j \in 1..Len(grand_plan[i].files_unique) :
            /\ Fetches[k].ref # grand_plan[i].files_unique[j].ref
            /\ heap.metas[Fetches[k].ref].path_segments
                 # heap.metas[grand_plan[i].files_unique[j].ref].path_segments
       /\ Fetches[k].path = << Fetches[k].root >> \o PathFound(Fetches[k].title)

\* a finished run that fetched from two roots, one item from a subcategory
C28_Witness ==
  /\ pc = "main_done"
  /\ \E a, b \in 1..Len(Fetches) :
       /\ Fetches[a].root # Fetches[b].root
       /\ Len(Fetches[a].path) = 2

====
